---- MODULE Spec2Model ----
(***************************************************************************)
(* Model of the OpenHVX agent: the broker session (amqp/publisher.go), the *)
(* supervised consume loop (amqp/consumer.go), the task handler            *)
(* (tasks/handler.go) and the action invoker (powershell/exec.go).         *)
(*                                                                         *)
(* The consume loop is modelled step by step: every call on the broker     *)
(* channel is one action, so that a broker failure can fall between any    *)
(* two of them.  The log calls records, in order, what the loop did for    *)
(* the delivery being processed; it is emptied when the loop takes the     *)
(* next delivery.  pc = "next" is the bottom of the loop body: the         *)
(* delivery has been processed completely.                                 *)
(*                                                                         *)
(* Spec is the consume loop on its own against the broker.  SessionSpec is *)
(* the process as main.go runs it: init, the start of the consumer, a      *)
(* telemetry publisher, the loop's supervision of the session, and the     *)
(* shutdown, all sharing the session of publisher.go.                      *)
(***************************************************************************)
EXTENDS Integers, Sequences, FiniteSets, TLC

VARIABLES
    brokerUp,   \* the broker accepts connections
    amqpURL,    \* publisher.go: the URL the session dials
    conn, ch,   \* publisher.go: the stored connection and channel (0 = nil)
    exch,       \* per channel id, the exchange declarations made on it
    liveConn,   \* ids of the connections that are open
    liveCh,     \* ids of the channels that are open
    now,        \* the wall clock read by time.Now()
    pc,         \* position of consumeLoop
    c,          \* consumeLoop: the channel it obtained (0 = none yet)
    d,          \* consumeLoop: body of the current delivery
    t,          \* consumeLoop: the decoded Task
    result,     \* consumeLoop: value returned by the handler
    hErr,       \* consumeLoop: error returned by the handler
    b,          \* consumeLoop: the marshalled result envelope
    lastRun,    \* outcome of the last script process run for this delivery
    calls,      \* what the loop did for this delivery, in order: Ack, Nack,
                \* Publish and QueueDeclare calls, script processes started,
                \* AfterResult goroutines started
    sup,        \* consumeLoop: tries in a row refused at a declaration
    pub,        \* a telemetry publisher: its publishWithRetry in progress
    mn,         \* main: InitPublisher, StartTaskConsumer, ClosePublisher
    foldCase,   \* the file system takes names that differ in case for one
                \* (NTFS, on which the agent runs) or does not
    fs,         \* the file system: what exists at each path
    nops,       \* datastore operations made so far
    last,       \* the last datastore operation and how it ended
    ops,        \* datastore operations that goroutines are in the middle of
    tel,        \* the last run of the inventory ticker or of the light refresh
    cfg,        \* main: the configuration loaded and the tickers made from it
    hand,       \* HandleTask: the task of its last call and what it made of it
    setup       \* consumeLoop: the calls that set the consumer up, this turn

sessVars == <<brokerUp, amqpURL, conn, ch, liveConn, liveCh, exch>>
taskVars == <<d, t, result, hErr, b, lastRun>>
loopVars == <<pc, c, taskVars, calls, sup, setup>>
unitVars == <<pub, mn>>
fsVars == <<foldCase, fs, nops, last, ops>>
hostVars == <<tel, cfg, hand>>
vars == <<brokerUp, amqpURL, conn, ch, liveConn, liveCh, exch, now, pc, c, d, t,
          result, hErr, b, lastRun, calls, sup, pub, mn, foldCase, fs, nops, last, ops,
          tel, cfg, hand, setup>>

\* ---------------------------------------------------------------- bounds

NumIds == 2      \* connection ids available to the model
MaxNow == 1      \* last tick of the wall clock
MaxTries == 4    \* the count of refused tries of the consume loop saturates here

Ids == 1..NumIds

\* ------------------------------------------------------------- constants

JobsEx      == "jobs"
TelemetryEx == "agent.telemetry"
ResultsEx   == "results"

AgentID == "HOST-A"     \* cfg.AgentID, the agentID argument of consumeLoop

queueName == "agent." \o AgentID \o ".tasks"
Prefetch == 5           \* consumer.go 74: c.Qos(5, 0, false)

\* ------------------------------------------------------------ JSON values

JInvalid == [k |-> "invalid"]            \* bytes that are not JSON
JNull    == [k |-> "null"]
JStr(s)  == [k |-> "str", s |-> s]
JNum(n)  == [k |-> "num", n |-> n]
JBool(v) == [k |-> "bool", b |-> v]
JObj(m)  == [k |-> "obj", m |-> m]       \* m: a function from keys to values

\* Go error values
Nil    == [nil |-> TRUE]
Err(m) == [nil |-> FALSE, msg |-> m]

\* no run of a telemetry goroutine yet, no configuration loaded yet
NoRun == [kind |-> "none", pc |-> "idle", host |-> <<>>, runs |-> <<>>, last |-> <<>>,
          out |-> "", err |-> Nil, msgs |-> <<>>]
NoConfig == [pc |-> "none"]
\* HandleTask not called yet
NoHandle == [pc |-> "idle"]

\* ----------------------------------------------------------- deliveries

\* A Task body as the control plane writes it: a field that is empty is
\* left out of the JSON object.
TaskBody(id, agent, reply, corrId) ==
    LET val == [taskId |-> id, agentId |-> agent, action |-> "vm.power",
                replyTo |-> reply, correlationId |-> corrId]
    IN  JObj([key \in {f \in DOMAIN val : val[f] /= ""} |-> JStr(val[key])])

TaskBodies ==
    { TaskBody("T1", a, r, co) :
        a \in {"", "HOST-A", "HOST-B"}, r \in {"", "reply.T1"}, co \in {"", "corr-9"} }

PoisonBodies == { JInvalid, JStr("not json"), JObj([taskId |-> JNum(7)]) }

Bodies == TaskBodies \cup PoisonBodies

TaskFields == {"taskId", "agentId", "action", "replyTo", "correlationId"}

ZeroTask == [f \in TaskFields |-> ""]

\* json.Unmarshal(d.Body, &t): an error unless the body is a JSON object whose
\* known fields are strings; a field that is absent keeps its zero value.
UnmarshalTask(body) ==
    IF body.k /= "obj"
    THEN [err |-> TRUE, t |-> ZeroTask]
    ELSE IF \E f \in TaskFields \cap DOMAIN body.m : body.m[f].k /= "str"
         THEN [err |-> TRUE, t |-> ZeroTask]
         ELSE [err |-> FALSE,
               t |-> [f \in TaskFields |->
                        IF f \in DOMAIN body.m THEN body.m[f].s ELSE ""]]

\* ------------------------------------------------------- broker session

\* cfg.RabbitMQURL when it is configured
Url == "amqp://broker"

\* what the network or the broker says when it refuses
DialRefused    == "dial tcp: connection refused"
ChannelRefused == "Exception (504) Reason: \"channel id space exhausted\""
Mismatch       == "Exception (406) Reason: \"PRECONDITION_FAILED - inequivalent arg\""

\* fmt.Errorf(text + ": %w", cause)
Wrap(text, cause) ==
    [nil |-> FALSE, msg |-> text \o ": " \o cause.msg, cause |-> cause]

\* publisher.go 235, 238, 241: the arguments of one ExchangeDeclare call
ExchangeDeclare(name, kind) ==
    [name |-> name, kind |-> kind, durable |-> TRUE, autoDelete |-> FALSE,
     internal |-> FALSE, noWait |-> FALSE]

\* the declarations of declareExchanges, in order
Exchanges ==
    << ExchangeDeclare(JobsEx, "direct"),
       ExchangeDeclare(TelemetryEx, "topic"),
       ExchangeDeclare(ResultsEx, "topic") >>

\* the declaration a dial answer refuses (0: none)
refusedAt(dial) ==
    CASE dial = "declare1" -> 1
      [] dial = "declare2" -> 2
      [] dial = "declare3" -> 3
      [] OTHER -> 0

\* declareExchanges that does not look at the answer to its last declaration
declareExchanges_IgnoreLast(failAt) ==
    IF failAt \in {1, 2}
    THEN [err |-> Wrap("declare exchange " \o Exchanges[failAt].name, Err(Mismatch)),
          declared |-> SubSeq(Exchanges, 1, failAt - 1)]
    ELSE [err |-> Nil,
          declared |-> IF failAt = 0 THEN Exchanges ELSE SubSeq(Exchanges, 1, 2)]

\* publisher.go 234-245: the declarations that succeeded and the error, when
\* the broker refuses declaration failAt (0: it refuses none)
declareExchanges(failAt) ==
    IF failAt = 0
    THEN [err |-> Nil, declared |-> Exchanges]
    ELSE [err |-> Wrap("declare exchange " \o Exchanges[failAt].name, Err(Mismatch)),
          declared |-> SubSeq(Exchanges, 1, failAt - 1)]

\* publisher.go 189-232: ensureChannel, under connMu.  dial is what the
\* broker answers to this attempt: "ok", or the step that fails ("dial",
\* "channel", "declare1".."declare3"); id is the identity of the pair a
\* successful attempt opens.  A failed attempt closes what it opened.
ensureChannel(dial, id) ==
    IF ch /= 0 /\ ch \in liveCh /\ conn /= 0 /\ conn \in liveConn
    THEN [ok |-> TRUE, err |-> Nil, c |-> ch, conn |-> conn, ch |-> ch,
          liveConn |-> liveConn, liveCh |-> liveCh, exch |-> exch]
    ELSE LET lc == liveConn \ {conn}
             lh == (liveCh \ {ch}) \ {conn}
             failed(e) == [ok |-> FALSE, err |-> e, c |-> 0, conn |-> 0, ch |-> 0,
                           liveConn |-> lc, liveCh |-> lh, exch |-> exch]
             de == declareExchanges(refusedAt(dial))
         IN  IF amqpURL = "" THEN failed(Err("amqp url is empty"))
             ELSE IF dial = "dial" THEN failed(Wrap("amqp dial", Err(DialRefused)))
             ELSE IF dial = "channel"
             THEN failed(Wrap("amqp channel", Err(ChannelRefused)))
             ELSE IF ~de.err.nil THEN failed(de.err)
             ELSE [ok |-> TRUE, err |-> Nil, c |-> id, conn |-> id, ch |-> id,
                   liveConn |-> lc \cup {id}, liveCh |-> lh \cup {id},
                   exch |-> [exch EXCEPT ![id] = de.declared]]

\* the id of the pair the next successful dial opens: the smallest one no
\* connection, channel or unit refers to (0 when the model has none left)
FreeIds == Ids \ (liveConn \cup liveCh \cup {conn, ch, c, pub.c, mn.seen})
NewId == IF FreeIds = {} THEN 0 ELSE CHOOSE i \in FreeIds : \A j \in FreeIds : i <= j

\* what a dial can answer
DialOutcomes ==
    IF amqpURL = "" THEN {"nourl"}
    ELSE IF brokerUp /\ NewId /= 0
    THEN {"ok", "dial", "channel", "declare1", "declare2", "declare3"}
    ELSE {"dial"}

\* publisher.go 285-296: resetConnection, under connMu: the session after it
resetConnection ==
    [conn |-> 0, ch |-> 0,
     liveConn |-> liveConn \ {conn},
     liveCh |-> (liveCh \ {ch}) \ {conn}]

\* ensureChannelWithRetry with a loop that makes one try too many
moreTries_OneTooMany(attempts, i) == attempts = 0 \/ i <= attempts

\* publisher.go 177: the loop condition of ensureChannelWithRetry
moreTries(attempts, i) == attempts = 0 \/ i < attempts

\* publisher.go 186: the error of ensureChannelWithRetry
retryError(attempts, lastErr) ==
    Wrap("amqp channel init failed after " \o ToString(attempts) \o " attempts",
         lastErr)

\* is err the error of a refused exchange declaration
isDeclareError(err) == err \in {declareExchanges(k).err : k \in 1..3}

\* amqp091.ErrClosed and another *amqp091.Error
ErrClosed == [nil |-> FALSE, type |-> "*amqp091.Error",
              msg |-> "Exception (504) Reason: \"channel/connection is not open\""]
ErrForced == [nil |-> FALSE, type |-> "*amqp091.Error",
              msg |-> "Exception (320) Reason: \"CONNECTION_FORCED\""]
\* an error of Publish that is not an *amqp091.Error
ErrWrite == Err("write tcp: broken pipe")

\* isConnErr that takes every error for a connection error
isConnErr_Any(err) == ~err.nil

\* publisher.go 271-283
isConnErr(err) ==
    IF err.nil THEN FALSE
    ELSE IF err = ErrClosed THEN TRUE
    ELSE "type" \in DOMAIN err /\ err.type = "*amqp091.Error"

\* ------------------------------------------------------- managed datastore
\* datadirs.go.  A path is the sequence of its elements from the root of the
\* volume; the file system maps the paths that exist to what is there.  On a
\* file system that folds case, two paths that differ in case only name the
\* same thing: the file system is then keyed by the lower-case path.

MaxOps == 2     \* datastore operations in a run
NumCallers == 2 \* goroutines that call the datastore at the same time

BasePath == <<"data">>                      \* cfg.BasePath
DirNames == <<"VMS", "VHD", "Images", "ISOs", "Checkpoints", "Logs", "_trash">>

\* datadirs.go 28-43: the DataDirs that EnsureDataDirs returns
Root == BasePath \o <<"openhvx">>
Dirs == [Root |-> Root, VMS |-> Root \o <<"VMS">>, VHD |-> Root \o <<"VHD">>,
         Images |-> Root \o <<"Images">>, ISOs |-> Root \o <<"ISOs">>,
         Checkpoints |-> Root \o <<"Checkpoints">>, Logs |-> Root \o <<"Logs">>,
         Trash |-> Root \o <<"_trash">>]

\* strings.ToLower / strings.EqualFold on the names of the model
Lower(n) ==
    CASE n = "VMS" -> "vms"
      [] n = "VHD" -> "vhd"
      [] n = "Images" -> "images"
      [] n = "ISOs" -> "isos"
      [] n = "Checkpoints" -> "checkpoints"
      [] n = "Logs" -> "logs"
      [] n = "DO-NOT-DELETE.txt" -> "do-not-delete.txt"
      [] OTHER -> n

\* the key under which the file system keeps path p
Key(p) == IF foldCase THEN [k \in DOMAIN p |-> Lower(p[k])] ELSE p

Dir == [kind |-> "dir", data |-> ""]
File(data) == [kind |-> "file", data |-> data]

Exists(f, p) == Key(p) \in DOMAIN f
IsDir(f, p) == Exists(f, p) /\ f[Key(p)].kind = "dir"
Prefixes(p) == {SubSeq(p, 1, k) : k \in 0..Len(p)}
Parent(p) == SubSeq(p, 1, Len(p) - 1)

\* f with x at path p
Put(f, p, x) == [q \in DOMAIN f \cup {Key(p)} |-> IF q = Key(p) THEN x ELSE f[q]]

\* os.MkdirAll(p): every missing directory down to p is made; it fails when
\* something on the way is a file
osMkdirAll(f, p) ==
    IF \E q \in Prefixes(p) : Exists(f, q) /\ ~IsDir(f, q)
    THEN [err |-> Err("mkdir: not a directory"), fs |-> f]
    ELSE [err |-> Nil,
          fs |-> [q \in DOMAIN f \cup {Key(x) : x \in Prefixes(p)} |->
                    IF q \in DOMAIN f THEN f[q] ELSE Dir]]

\* is path q at or below path p, for the file system
Within(q, p) == Len(q) >= Len(p) /\ SubSeq(q, 1, Len(p)) = p

\* os.Rename(src, dst): the tree at src moves to dst.  A file takes the
\* place of a file that is at dst (rename(2), and MoveFileEx with
\* MOVEFILE_REPLACE_EXISTING on Windows); with a directory on either side
\* of a dst that exists the call is taken to fail
osRename(f, src, dst) ==
    IF ~Exists(f, src) THEN [err |-> Err("rename: no such file or directory"), fs |-> f]
    ELSE IF Key(src) = Key(dst) THEN [err |-> Nil, fs |-> f]
    ELSE IF ~IsDir(f, Parent(dst))
    THEN [err |-> Err("rename: destination not available"), fs |-> f]
    ELSE IF Exists(f, dst) /\ (IsDir(f, dst) \/ IsDir(f, src))
    THEN [err |-> Err("rename: destination is taken"), fs |-> f]
    ELSE IF Within(Key(dst), Key(src))
    THEN [err |-> Err("rename: invalid argument"), fs |-> f]
    ELSE LET ks == Key(src)
             kd == Key(dst)
             moved == {q \in DOMAIN f : Within(q, ks)}
             to(q) == kd \o SubSeq(q, Len(ks) + 1, Len(q))
         IN  [err |-> Nil,
              fs |-> [q \in (DOMAIN f \ moved) \cup {to(x) : x \in moved} |->
                        IF q \in {to(x) : x \in moved}
                        THEN f[CHOOSE x \in moved : to(x) = q]
                        ELSE f[q]]]

\* os.OpenFile(p, O_RDWR|O_CREATE|O_EXCL): a new, empty file
osCreateExcl(f, p) ==
    IF ~IsDir(f, Parent(p)) \/ Exists(f, p)
    THEN [err |-> Err("open: cannot create"), fs |-> f]
    ELSE [err |-> Nil, fs |-> Put(f, p, File(""))]

GuardName == "DO-NOT-DELETE.txt"
GuardNotice == "Managed by OpenHVX"     \* datadirs.go 56-59, shortened

\* datadirs.go 28-53: the tree that EnsureDataDirs leaves, with its guard
\* files, and in it a virtual machine directory with a disk
InitialFs ==
    LET dirs == {<<>>, BasePath, Root} \cup {Root \o <<DirNames[k]>> : k \in DOMAIN DirNames}
                   \cup {Dirs.VMS \o <<"vm1">>}
        guards == {x \o <<GuardName>> :
                      x \in {Root} \cup {Root \o <<DirNames[k]>> : k \in DOMAIN DirNames}}
        files == guards \cup {Dirs.VMS \o <<"vm1", "disk">>}
    IN  [q \in {Key(x) : x \in dirs \cup files} |->
            IF q \in {Key(x) : x \in dirs} THEN Dir
            ELSE IF q = Key(Dirs.VMS \o <<"vm1", "disk">>) THEN File("image")
            ELSE File(GuardNotice)]

\* filepath.Clean on an absolute path: "." and the empty element (two
\* separators in a row) are dropped, ".." drops the element before it (and
\* nothing at the root)
RECURSIVE CleanFrom(_, _)
CleanFrom(done, rest) ==
    IF rest = <<>> THEN done
    ELSE IF Head(rest) \in {".", ""} THEN CleanFrom(done, Tail(rest))
    ELSE IF Head(rest) = ".."
    THEN CleanFrom(IF done = <<>> THEN done ELSE SubSeq(done, 1, Len(done) - 1),
                   Tail(rest))
    ELSE CleanFrom(Append(done, Head(rest)), Tail(rest))

Clean(p) == CleanFrom(<<>>, p)

\* datadirs.go 75-85 (the paths of the model are absolute and not empty)
canonicalize(p) == Clean(p)

\* path/filepath sameWord: how filepath.Rel compares two elements
sameWord(x, y) == IF foldCase THEN Lower(x) = Lower(y) ELSE x = y

\* datadirs.go 87-104: is p strictly under base.  filepath.Rel(base, p)
\* starts with ".." unless every element of base is, for sameWord, the
\* element of p at its place; p == base is the comparison of two strings.
isUnder(p, base) ==
    LET cp == Clean(p)
        cb == Clean(base)
    IN  /\ cp /= cb
        /\ Len(cp) >= Len(cb)
        /\ \A k \in DOMAIN cb : sameWord(cp[k], cb[k])

\* datadirs.go 107-121
IsProtectedPath(p, dd) ==
    Clean(p) \in {Clean(dd.Root), Clean(dd.VMS), Clean(dd.VHD), Clean(dd.Images),
                  Clean(dd.ISOs), Clean(dd.Checkpoints), Clean(dd.Logs),
                  Clean(dd.Trash)}

\* datadirs.go 124-136
AssertSafeTarget(target, dd) ==
    LET canon == canonicalize(target)
    IN  IF ~isUnder(canon, dd.Root)
        THEN Err("unsafe target: not under the managed root")
        ELSE IF IsProtectedPath(canon, dd)
        THEN Err("refuse to operate on protected dir")
        ELSE Nil

UniqueMax == 9999       \* datadirs.go 187

\* filepath.Ext on the last names of the model: the suffix that starts at
\* the last dot, nothing when the name has no dot
Ext(base) ==
    CASE base = "disk.vhdx" -> ".vhdx"
      [] base = "new.vhdx" -> ".vhdx"
      [] base = "vm.tar.gz" -> ".gz"
      [] base = ".cfg" -> ".cfg"
      [] base = GuardName -> ".txt"
      [] OTHER -> ""

\* strings.TrimSuffix(base, ext) on the same names
TrimSuffix(base, ext) ==
    CASE base = "disk.vhdx" /\ ext = ".vhdx" -> "disk"
      [] base = "new.vhdx" /\ ext = ".vhdx" -> "new"
      [] base = "vm.tar.gz" /\ ext = ".gz" -> "vm.tar"
      [] base = ".cfg" /\ ext = ".cfg" -> ""
      [] base = GuardName /\ ext = ".txt" -> "DO-NOT-DELETE"
      [] OTHER -> base

\* time.Now().UTC().Format("20060102-150405.000") at clock value n
StampMs(n) == "19700101-00000" \o ToString(n) \o ".000"

\* datadirs.go 168-171, 188: the name of candidate i of p
Numbered(p, i) ==
    LET base == p[Len(p)]
        ext == Ext(base)
        name == TrimSuffix(base, ext)
    IN  Parent(p) \o <<name \o " (" \o ToString(i) \o ")" \o ext>>

\* datadirs.go 168-171, 193-194: the name of p with a timestamp
Stamped(p, ts) ==
    LET base == p[Len(p)]
        ext == Ext(base)
        name == TrimSuffix(base, ext)
    IN  Parent(p) \o <<name \o "-" \o ts \o ext>>

\* the least number of a set that is not empty
Least(S) == CHOOSE i \in S : \A j \in S : i <= j

\* datadirs.go 187-192: the loop over the candidates i..9999, which ends at
\* the first one that Lstat does not find.  The loop is evaluated in runs of
\* n, 2n, 4n, ... candidates (a run ends the search when one of its
\* candidates is free, and then the least of them is the result).
RECURSIVE firstFree(_, _, _, _)
firstFree(f, p, i, n) ==
    IF i > UniqueMax THEN <<>>
    ELSE LET hi == IF i + n - 1 > UniqueMax THEN UniqueMax ELSE i + n - 1
             free == {j \in i..hi : ~Exists(f, Numbered(p, j))}
         IN  IF free /= {} THEN Numbered(p, Least(free))
             ELSE firstFree(f, p, hi + 1, 2 * n)

\* a uniquePath that hands back the wanted path without a look at it
uniquePath_NoProbe(f, p, ts) == [err |-> Nil, path |-> p]

\* datadirs.go 167-199: p when nothing is there, else the first numbered
\* name that is free, else the name with the timestamp ts of the call when
\* that is free, else an error
uniquePath(f, p, ts) ==
    IF ~Exists(f, p) THEN [err |-> Nil, path |-> p]
    ELSE LET q == firstFree(f, p, 1, 1)
         IN  IF q /= <<>> THEN [err |-> Nil, path |-> q]
             ELSE IF ~Exists(f, Stamped(p, ts))
             THEN [err |-> Nil, path |-> Stamped(p, ts)]
             ELSE [err |-> Err("unable to find a free name"), path |-> <<>>]

\* what an operation returns: the error, the file system it leaves, and the
\* path it made
Refused(f, e) == [err |-> e, fs |-> f, path |-> <<>>]
Done(r, e, q) == [err |-> IF r.err.nil THEN Nil ELSE e, fs |-> r.fs,
                  path |-> IF r.err.nil THEN q ELSE <<>>]

\* datadirs.go 201-213
SafeMkdirAll(f, dir, dd) ==
    LET canon == canonicalize(dir)
    IN  IF ~isUnder(canon, dd.Root)
        THEN Refused(f, Err("mkdir outside managed root"))
        ELSE IF IsProtectedPath(canon, dd)
        THEN Refused(f, Err("refuse to mkdir a protected dir"))
        ELSE LET m == osMkdirAll(f, canon) IN Done(m, m.err, canon)

\* datadirs.go 215-235
SafeCreateFile(f, dest, dd) ==
    LET e == AssertSafeTarget(dest, dd)
        canon == canonicalize(dest)
        m == osMkdirAll(f, Parent(canon))
        u == uniquePath(m.fs, canon, StampMs(now))
        o == osCreateExcl(m.fs, u.path)
    IN  IF ~e.nil THEN Refused(f, e)
        ELSE IF ~m.err.nil THEN Refused(m.fs, Wrap("prepare parent dir", m.err))
        ELSE IF ~u.err.nil THEN Refused(m.fs, u.err)
        ELSE Done(o, o.err, u.path)

\* os.CreateTemp(parent, ".openhvx-*"): the temporary file
TempIn(parent) == parent \o <<".openhvx-1">>

\* f without what is at path p (os.Remove of a file)
Without(f, p) == [q \in DOMAIN f \ {Key(p)} |-> f[q]]

\* SafeWriteFileAtomicUnique that writes at the destination itself
SafeWriteFileAtomicUnique_InPlace(f, dest, data, dd) ==
    LET e == AssertSafeTarget(dest, dd)
        canon == canonicalize(dest)
        m == osMkdirAll(f, Parent(canon))
    IN  IF ~e.nil THEN Refused(f, e)
        ELSE IF ~m.err.nil THEN Refused(m.fs, Wrap("prepare parent dir", m.err))
        ELSE IF IsDir(m.fs, canon) THEN Refused(m.fs, Err("write: is a directory"))
        ELSE [err |-> Nil, fs |-> Put(m.fs, canon, File(data)), path |-> canon]

\* datadirs.go 237-279: the data is written to a temporary file next to the
\* destination, which is renamed to the free name; the deferred os.Remove
\* takes the temporary file away when the rename did not
SafeWriteFileAtomicUnique(f, dest, data, dd) ==
    LET e == AssertSafeTarget(dest, dd)
        canon == canonicalize(dest)
        m == osMkdirAll(f, Parent(canon))
        tmp == TempIn(Parent(canon))
        w == Put(m.fs, tmp, File(data))
        u == uniquePath(w, canon, StampMs(now))
        r == osRename(w, tmp, u.path)
    IN  IF ~e.nil THEN Refused(f, e)
        ELSE IF ~m.err.nil THEN Refused(m.fs, Wrap("prepare parent dir", m.err))
        ELSE IF ~u.err.nil THEN Refused(m.fs, u.err)
        ELSE IF ~r.err.nil THEN Refused(m.fs, Wrap("atomic rename failed", r.err))
        ELSE [err |-> Nil, fs |-> r.fs, path |-> u.path]

\* datadirs.go 281-307
SafeRenameNoOverwrite(f, src, dst, dd) ==
    LET es == AssertSafeTarget(src, dd)
        ed == AssertSafeTarget(dst, dd)
        srcCanon == canonicalize(src)
        dstCanon == canonicalize(dst)
        m == osMkdirAll(f, Parent(dstCanon))
        u == uniquePath(m.fs, dstCanon, StampMs(now))
        r == osRename(m.fs, srcCanon, u.path)
    IN  IF ~es.nil THEN Refused(f, Wrap("invalid src", es))
        ELSE IF ~ed.nil THEN Refused(f, Wrap("invalid dst", ed))
        ELSE IF ~m.err.nil THEN Refused(m.fs, Wrap("prepare dst parent", m.err))
        ELSE IF ~u.err.nil THEN Refused(m.fs, u.err)
        ELSE Done(r, Wrap("rename failed", r.err), u.path)

\* datadirs.go 309-353: os.Open takes a directory too, and io.Copy then
\* fails after the destination was created
SafeCopyFileNoOverwrite(f, src, dst, dd) ==
    LET es == AssertSafeTarget(src, dd)
        ed == AssertSafeTarget(dst, dd)
        srcCanon == canonicalize(src)
        dstCanon == canonicalize(dst)
        m == osMkdirAll(f, Parent(dstCanon))
        u == uniquePath(m.fs, dstCanon, StampMs(now))
        o == osCreateExcl(m.fs, u.path)
    IN  IF ~es.nil THEN Refused(f, Wrap("invalid src", es))
        ELSE IF ~ed.nil THEN Refused(f, Wrap("invalid dst", ed))
        ELSE IF ~Exists(f, srcCanon) THEN Refused(f, Err("open: no such file or directory"))
        ELSE IF ~m.err.nil THEN Refused(m.fs, Wrap("prepare dst parent", m.err))
        ELSE IF ~u.err.nil THEN Refused(m.fs, u.err)
        ELSE IF ~o.err.nil THEN Refused(o.fs, o.err)
        ELSE IF IsDir(f, srcCanon) THEN Refused(o.fs, Err("read: is a directory"))
        ELSE [err |-> Nil, fs |-> Put(o.fs, u.path, f[Key(srcCanon)]), path |-> u.path]

\* time.Now().UTC().Format("20060102-150405") at clock value n
Stamp(n) == "19700101-00000" \o ToString(n)

\* MoveToTrash that keeps only the last name of its target
MoveToTrash_Flat(f, target, dd, ts) ==
    LET e == AssertSafeTarget(target, dd)
        src == canonicalize(target)
        dst == dd.Trash \o <<ts, src[Len(src)]>>
        m == osMkdirAll(f, Parent(dst))
        u == uniquePath(m.fs, dst, StampMs(now))
        r == osRename(m.fs, src, u.path)
    IN  IF ~e.nil THEN Refused(f, e)
        ELSE IF ~m.err.nil THEN Refused(m.fs, Wrap("prepare trash dir", m.err))
        ELSE IF ~u.err.nil THEN Refused(m.fs, u.err)
        ELSE Done(r, Wrap("move to trash failed", r.err), u.path)

\* datadirs.go 140-163: rel is what filepath.Rel(d.Root, src) returns for a
\* src that isUnder accepted, the elements of src after those of the root
MoveToTrash(f, target, dd, ts) ==
    LET e == AssertSafeTarget(target, dd)
        src == canonicalize(target)
        rel == SubSeq(src, Len(dd.Root) + 1, Len(src))
        dst == (dd.Trash \o <<ts>>) \o rel
        m == osMkdirAll(f, Parent(dst))
        u == uniquePath(m.fs, dst, StampMs(now))
        r == osRename(m.fs, src, u.path)
    IN  IF ~e.nil THEN Refused(f, e)
        ELSE IF ~m.err.nil THEN Refused(m.fs, Wrap("prepare trash dir", m.err))
        ELSE IF ~u.err.nil THEN Refused(m.fs, u.err)
        ELSE Done(r, Wrap("move to trash failed", r.err), u.path)

\* the paths the operations are called with: the protected directories,
\* paths outside the managed root, paths below it, a path that differs in
\* case from a protected one, and a path that is not clean
Targets ==
    {Root} \cup {Root \o <<DirNames[k]>> : k \in DOMAIN DirNames}
    \cup {<<>>, BasePath, BasePath \o <<"other">>}
    \cup {Dirs.VMS \o <<"vm1">>, Dirs.VMS \o <<"vm1", "disk">>, Root \o <<"new">>}
    \cup {Root \o <<"vms">>, Dirs.VMS \o <<"..", "VHD">>}
    \cup {Dirs.Images \o <<"img">>}

\* those of them that are neither a protected directory nor outside the root
Plain ==
    {Dirs.VMS \o <<"vm1">>, Dirs.VMS \o <<"vm1", "disk">>, Root \o <<"new">>,
     Root \o <<"vms">>, Dirs.Images \o <<"img">>}

\* the pairs that rename and copy are called with: one of the two at least
\* is such a path
Pairs == (Plain \X Targets) \cup (Targets \X Plain)

\* what is written
Payloads == {"new"}

NoOp == [op |-> "none", targets |-> {}, err |-> Nil, changed |-> FALSE, path |-> <<>>,
         data |-> ""]

\* an operation was called with targets and returned r
Called(op, targets, data, r) ==
    /\ nops < MaxOps
    /\ nops' = nops + 1
    /\ fs' = r.fs
    /\ last' = [op |-> op, targets |-> targets, err |-> r.err, changed |-> r.fs /= fs,
                path |-> r.path, data |-> data]
    /\ UNCHANGED <<foldCase, ops, sessVars, now, loopVars, unitVars, hostVars>>

CallMkdirAll ==
    \E x \in Targets : Called("safeMkdirAll", {x}, "", SafeMkdirAll(fs, x, Dirs))

CallCreateFile ==
    \E x \in Targets : Called("safeCreateFile", {x}, "", SafeCreateFile(fs, x, Dirs))

CallWriteFile ==
    \E x \in Targets, data \in Payloads :
       Called("safeWriteFileAtomicUnique", {x}, data,
              SafeWriteFileAtomicUnique(fs, x, data, Dirs))

CallRename ==
    \E xy \in Pairs :
       Called("safeRenameNoOverwrite", {xy[1], xy[2]}, "",
              SafeRenameNoOverwrite(fs, xy[1], xy[2], Dirs))

CallCopyFile ==
    \E xy \in Pairs :
       Called("safeCopyFileNoOverwrite", {xy[1], xy[2]}, "",
              SafeCopyFileNoOverwrite(fs, xy[1], xy[2], Dirs))

CallMoveToTrash ==
    \E x \in Targets : Called("moveToTrash", {x}, "", MoveToTrash(fs, x, Dirs, Stamp(now)))

AllDirs(dd) == <<dd.Root, dd.VMS, dd.VHD, dd.Images, dd.ISOs, dd.Checkpoints,
                 dd.Logs, dd.Trash>>

\* writeGuards that does not look whether the file is there
writeGuards_Always(f, dd, failed) ==
    LET dirs == {AllDirs(dd)[k] : k \in 1..8}
        bad == {x \in dirs : x \in failed \/ ~IsDir(f, x)}
        written == {Key(x \o <<GuardName>>) : x \in dirs \ bad}
    IN  [err |-> IF bad = {} THEN Nil ELSE Err("write " \o GuardName),
         fs |-> [q \in DOMAIN f \cup written |->
                   IF q \in written THEN File(GuardNotice) ELSE f[q]]]

\* datadirs.go 55-71: a guard file is written where os.Stat finds nothing;
\* failed are the directories in which os.WriteFile fails, and the error
\* says that one did
writeGuards(f, dd, failed) ==
    LET dirs == {AllDirs(dd)[k] : k \in 1..8}
        missing == {x \in dirs : ~Exists(f, x \o <<GuardName>>)}
        bad == {x \in missing : x \in failed \/ ~IsDir(f, x)}
        written == {Key(x \o <<GuardName>>) : x \in missing \ bad}
    IN  [err |-> IF bad = {} THEN Nil ELSE Err("write " \o GuardName),
         fs |-> [q \in DOMAIN f \cup written |->
                   IF q \in written THEN File(GuardNotice) ELSE f[q]]]

\* datadirs.go 46-50: the directories are made in turn, up to the first
\* that cannot be
mkdirEach(f, dirs) ==
    LET bad == {k \in DOMAIN dirs : ~osMkdirAll(f, dirs[k]).err.nil}
        stop == IF bad = {} THEN Len(dirs) + 1
                ELSE CHOOSE k \in bad : \A j \in bad : k <= j
        made == UNION {{Key(x) : x \in Prefixes(dirs[k])} : k \in 1..(stop - 1)}
    IN  [err |-> IF bad = {} THEN Nil
                 ELSE Wrap("mkdir", osMkdirAll(f, dirs[stop]).err),
         fs |-> [q \in DOMAIN f \cup made |-> IF q \in DOMAIN f THEN f[q] ELSE Dir]]

\* datadirs.go 28-53, for a base path that is clean and not empty: the
\* DataDirs are Dirs; what writeGuards returns is dropped
EnsureDataDirs(f, failed) ==
    LET m == mkdirEach(f, AllDirs(Dirs))
        w == writeGuards(m.fs, Dirs, failed)
    IN  IF ~m.err.nil THEN [err |-> m.err, fs |-> m.fs, path |-> <<>>]
        ELSE [err |-> Nil, fs |-> w.fs, path |-> Dirs.Root]

\* the directories whose guard file cannot be written, in a call
GuardFailures == {{}, {Dirs.VMS}}

CallEnsureDataDirs ==
    \E failed \in GuardFailures :
       Called("ensureDataDirs", {}, "", EnsureDataDirs(fs, failed))

\* ---- operations of several goroutines on one destination
\* The datastore has no lock (datadirs.go has no sync.Mutex), so the system
\* calls of two operations interleave.  Each caller makes one operation
\* whose destination resolves to Wanted.

Callers == 1..NumCallers
Wanted == Dirs.Trash \o <<Stamp(0), "item">>
Item == Root \o <<"item">>              \* what moveToTrash is called with
Source(i) == Root \o <<"src" \o ToString(i)>>
Payload(i) == "data" \o ToString(i)
RaceOps == {"write", "rename", "trash", "create", "copy"}

NoCall == [pc |-> "idle", op |-> "", src |-> <<>>, data |-> "", final |-> <<>>,
           err |-> Nil, path |-> <<>>]
NoCalls == [i \in Callers |-> NoCall]

\* the tree in which the callers work: each has a file of its own to rename
\* or copy, and there is a file to move to the trash
RaceFs ==
    LET own == {Key(Source(i)) : i \in Callers}
    IN  [q \in DOMAIN InitialFs \cup own \cup {Key(Item)} |->
            IF q \in DOMAIN InitialFs THEN InitialFs[q]
            ELSE IF q = Key(Item) THEN File("item")
            ELSE File(CHOOSE x \in {"src" \o ToString(i) : i \in Callers} :
                         \E i \in Callers : q = Key(Source(i)) /\ x = "src" \o ToString(i))]

CallerAt(i, r) == ops' = [ops EXCEPT ![i] = r]
raceFrame ==
    UNCHANGED <<foldCase, nops, last, sessVars, now, loopVars, unitVars, hostVars>>

\* the call returns
Returned(call, e, q) ==
    [call EXCEPT !.pc = "done", !.err = e, !.path = IF e.nil THEN q ELSE <<>>]

\* the operation up to its uniquePath: the target is checked, the parent of
\* the destination is made (datadirs.go 153, 226, 246, 296, 327), the source
\* of a copy is opened (322) and the temporary file of a write is written
\* (250-267)
RaceBegin(i) ==
    /\ ops[i].pc = "idle"
    /\ \E op \in RaceOps :
         LET tmp == Parent(Wanted) \o <<".openhvx-" \o ToString(i)>>
             src == CASE op = "write" -> tmp
                      [] op = "trash" -> Item
                      [] op = "create" -> <<>>
                      [] OTHER -> Source(i)
             e == IF op = "trash" THEN AssertSafeTarget(Item, Dirs)
                  ELSE AssertSafeTarget(Wanted, Dirs)
             m == osMkdirAll(fs, Parent(Wanted))
             call == [NoCall EXCEPT !.op = op,
                                    !.src = src,
                                    !.data = IF op = "write" THEN Payload(i) ELSE ""]
         IN  IF ~e.nil THEN CallerAt(i, Returned(call, e, <<>>)) /\ UNCHANGED fs
             ELSE IF ~m.err.nil
             THEN CallerAt(i, Returned(call, m.err, <<>>)) /\ UNCHANGED fs
             ELSE IF op = "copy" /\ ~Exists(fs, src)
             THEN CallerAt(i, Returned(call, Err("open: no such file or directory"), <<>>))
                  /\ fs' = m.fs
             ELSE /\ CallerAt(i, [call EXCEPT !.pc = "probe"])
                  /\ fs' = IF op = "write" THEN Put(m.fs, tmp, File(Payload(i))) ELSE m.fs
    /\ raceFrame

\* uniquePath (datadirs.go 167-199): the name that is free now
RaceProbe(i) ==
    /\ ops[i].pc = "probe"
    /\ LET u == uniquePath(fs, Wanted, StampMs(now))
       IN  IF ~u.err.nil
           THEN /\ CallerAt(i, Returned(ops[i], u.err, <<>>))
                /\ fs' = IF ops[i].op = "write" THEN Without(fs, ops[i].src) ELSE fs
           ELSE /\ CallerAt(i, [ops[i] EXCEPT !.pc = "place", !.final = u.path])
                /\ UNCHANGED fs
    /\ raceFrame

\* the system call that puts something at the name: os.Rename (datadirs.go
\* 159, 274, 303), with the deferred os.Remove of a write (255-258), or
\* os.OpenFile with O_EXCL (230, 337), after which a copy streams its source
\* (346)
RacePlace(i) ==
    /\ ops[i].pc = "place"
    /\ LET call == ops[i]
           r == osRename(fs, call.src, call.final)
           o == osCreateExcl(fs, call.final)
       IN  CASE call.op \in {"rename", "trash"} ->
                  /\ fs' = r.fs
                  /\ CallerAt(i, Returned(call, r.err, call.final))
             [] call.op = "write" ->
                  /\ fs' = IF r.err.nil THEN r.fs ELSE Without(fs, call.src)
                  /\ CallerAt(i, Returned(call, r.err, call.final))
             [] call.op = "create" ->
                  /\ fs' = o.fs
                  /\ CallerAt(i, Returned(call, o.err, call.final))
             [] call.op = "copy" ->
                  /\ fs' = o.fs
                  /\ CallerAt(i, IF o.err.nil THEN [call EXCEPT !.pc = "stream"]
                                 ELSE Returned(call, o.err, <<>>))
    /\ raceFrame

\* io.Copy (datadirs.go 346-351) into the file that was opened: what the
\* source holds now is written
RaceStream(i) ==
    /\ ops[i].pc = "stream"
    /\ LET call == ops[i]
       IN  IF ~Exists(fs, call.src) \/ IsDir(fs, call.src)
              \/ ~Exists(fs, call.final) \/ IsDir(fs, call.final)
           THEN CallerAt(i, Returned(call, Err("copy failed"), <<>>)) /\ UNCHANGED fs
           ELSE /\ fs' = Put(fs, call.final, fs[Key(call.src)])
                /\ CallerAt(i, Returned(call, Nil, call.final))
    /\ raceFrame

\* the datastore when no operation was made on it
FsQuiet ==
    /\ fs = InitialFs
    /\ nops = 0
    /\ last = NoOp
    /\ ops = NoCalls
    /\ tel = NoRun
    /\ cfg = NoConfig
    /\ hand = NoHandle

\* ---------------------------------------------------------- action invoker

\* what a script process can write to stdout
OutEmpty    == ""
OutText     == "VM started"
OutOkEnv    == "{\"ok\":true,\"result\":{\"state\":\"Running\"}}"
OutErrEnv   == "{\"ok\":false,\"error\":\"VM not found\"}"
OutBlankErr == "{\"ok\":false,\"error\":\"\"}"
OutPlain    == "{\"state\":\"Off\"}"
OutNum      == "42"

Stdouts == {OutEmpty, OutText, OutOkEnv, OutErrEnv, OutBlankErr, OutPlain, OutNum}

\* and what the inventory scripts can write besides
OutOkBare == "{\"ok\":true}"
\* the result of OutOkEnv, as bytes
OutResult == "{\"state\":\"Running\"}"
OutPretty == "{ \"state\": \"Off\" }"

\* what a script process can write to stderr
ErrBoom         == " boom\n"
UnknownParamMsg == "A parameter cannot be found that matches parameter name 'InputJson'."

Stderrs == {"", ErrBoom, UnknownParamMsg}

\* one run of the script process: exit code, stdout, stderr
RunOutcomes == [exit : {0, 1}, out : Stdouts, stderr : Stderrs]

\* the host a task runs on: is an interpreter on PATH, does the script file
\* exist, and what the first and the second run of the script would do
Envs == [pwsh : BOOLEAN, script : BOOLEAN, r1 : RunOutcomes, r2 : RunOutcomes]

\* strings.TrimSpace on the stderr texts
TrimSpace(s) == IF s = ErrBoom THEN "boom" ELSE s

\* strings.ToLower on the stderr texts and the parameter name
ToLower(s) ==
    CASE s = UnknownParamMsg ->
           "a parameter cannot be found that matches parameter name 'inputjson'."
      [] s = "InputJson" -> "inputjson"
      [] OTHER -> s

\* strings.Contains(s, sub) on the lower-cased stderr texts
Contains(s, sub) ==
    /\ s = ToLower(UnknownParamMsg)
    /\ sub \in {"parameter cannot be found", "inputjson"}

\* isUnknownParamError that takes whatever the script wrote to stderr for
\* the report of an unknown parameter
isUnknownParamError_AnyStderr(stderr, param) == stderr /= ""

\* isUnknownParamError that takes every failure for an unknown parameter
isUnknownParamError_Any(stderr, param) == TRUE

\* exec.go 87-94
isUnknownParamError(stderr, param) ==
    /\ Contains(ToLower(stderr), "parameter cannot be found")
    /\ Contains(ToLower(stderr), ToLower(param))

\* exec.go 66-85: what runPwsh returns for a run of the process
runPwsh(r) ==
    IF r.exit /= 0
    THEN [out |-> r.out, stderr |-> r.stderr, err |-> Err("exit status 1")]
    ELSE IF r.out = ""
         THEN [out |-> "", stderr |-> "", err |-> Err("empty action output")]
         ELSE [out |-> r.out, stderr |-> r.stderr, err |-> Nil]

\* exec.go 96-103: the script file of an action (the actions of the model are
\* lower-case and hold no character that is replaced)
scriptRel(action) == "powershell/actions/" \o action \o ".ps1"

\* exec.go 20-64.  Returns the bytes and the error, with the processes it
\* started (runs: was -InputJson passed, was the {action, data} payload
\* written to stdin) and the outcome of the last one.
RunActionScript(action, env) ==
    IF ~env.pwsh
    THEN [out |-> "", err |-> Err("neither 'pwsh' nor 'powershell' found in PATH"),
          runs |-> <<>>, last |-> <<>>]
    ELSE IF ~env.script
    THEN [out |-> "", err |-> Err("script not found: " \o scriptRel(action)),
          runs |-> <<>>, last |-> <<>>]
    ELSE
    LET p1 == runPwsh(env.r1)
        p2 == runPwsh(env.r2)
        run1 == [op |-> "run", inline |-> TRUE, stdin |-> TRUE,
                 failed |-> ~p1.err.nil, stderr |-> p1.stderr]
        run2 == [op |-> "run", inline |-> FALSE, stdin |-> TRUE,
                 failed |-> ~p2.err.nil, stderr |-> p2.stderr]
    IN  IF p1.err.nil
        THEN [out |-> p1.out, err |-> Nil, runs |-> <<run1>>, last |-> <<env.r1>>]
        ELSE IF isUnknownParamError(p1.stderr, "InputJson")
        THEN IF p2.err.nil
             THEN [out |-> p2.out, err |-> Nil,
                   runs |-> <<run1, run2>>, last |-> <<env.r2>>]
             ELSE IF p2.out /= ""
             THEN [out |-> p2.out, err |-> Err("action script failed"),
                   runs |-> <<run1, run2>>, last |-> <<env.r2>>]
             ELSE [out |-> "",
                   err |-> Err("action script failed: " \o TrimSpace(p2.stderr)),
                   runs |-> <<run1, run2>>, last |-> <<env.r2>>]
        ELSE IF p1.out /= ""
        THEN [out |-> p1.out, err |-> Err("action script failed"),
              runs |-> <<run1>>, last |-> <<env.r1>>]
        ELSE [out |-> "",
              err |-> Err("action script failed: " \o TrimSpace(p1.stderr)),
              runs |-> <<run1>>, last |-> <<env.r1>>]

\* ------------------------------------------------------------ task handler

\* json.Unmarshal(raw, &obj) on the stdout texts: the value, or an error
ParseJSON(s) ==
    CASE s = OutOkEnv ->
           [err |-> FALSE,
            v |-> JObj([ok |-> JBool(TRUE),
                        result |-> JObj([state |-> JStr("Running")])])]
      [] s = OutErrEnv ->
           [err |-> FALSE,
            v |-> JObj([ok |-> JBool(FALSE), error |-> JStr("VM not found")])]
      [] s = OutBlankErr ->
           [err |-> FALSE, v |-> JObj([ok |-> JBool(FALSE), error |-> JStr("")])]
      [] s = OutPlain -> [err |-> FALSE, v |-> JObj([state |-> JStr("Off")])]
      [] s = OutNum -> [err |-> FALSE, v |-> JNum(42)]
      [] s = OutOkBare -> [err |-> FALSE, v |-> JObj([ok |-> JBool(TRUE)])]
      [] s = OutPretty -> [err |-> FALSE, v |-> JObj([state |-> JStr("Off")])]
      [] s = OutResult -> [err |-> FALSE, v |-> JObj([state |-> JStr("Running")])]
      [] s = "null" -> [err |-> FALSE, v |-> JNull]
      [] OTHER -> [err |-> TRUE, v |-> JNull]

\* context.go 61-86: the runtime context that SetRuntimeContext stores (main
\* calls it before it starts the consumer, main.go 142 and 209)
RuntimeCtx ==
    [AgentID |-> AgentID, BasePath |-> BasePath,
     Paths |-> [root |-> Dirs.Root, vms |-> Dirs.VMS, vhd |-> Dirs.VHD,
                images |-> Dirs.Images, isos |-> Dirs.ISOs,
                checkpoints |-> Dirs.Checkpoints, logs |-> Dirs.Logs,
                trash |-> Dirs.Trash],
     Datastores |->
        <<[name |-> "OpenHVX Root", kind |-> "root", path |-> Dirs.Root, readOnly |-> FALSE],
          [name |-> "OpenHVX VMS", kind |-> "vm", path |-> Dirs.VMS, readOnly |-> FALSE],
          [name |-> "OpenHVX VHD", kind |-> "vhd", path |-> Dirs.VHD, readOnly |-> FALSE],
          [name |-> "OpenHVX Images", kind |-> "image", path |-> Dirs.Images, readOnly |-> TRUE],
          [name |-> "OpenHVX ISOs", kind |-> "iso", path |-> Dirs.ISOs, readOnly |-> TRUE],
          [name |-> "OpenHVX Checkpoints", kind |-> "checkpoint",
           path |-> Dirs.Checkpoints, readOnly |-> FALSE],
          [name |-> "OpenHVX Logs", kind |-> "logs", path |-> Dirs.Logs, readOnly |-> FALSE]>>]

\* context.go 90-98
ctxMap(rt, tenantID) ==
    [agentId |-> rt.AgentID, tenantId |-> tenantID, basePath |-> rt.BasePath,
     paths |-> rt.Paths, datastores |-> rt.Datastores]

\* a merge that leaves a __ctx of the caller where it is
mergeCtx_KeepCallers(data, rt, tenantID) ==
    [merged |-> [key \in DOMAIN data \cup {"__ctx"} |->
                    IF key \in DOMAIN data THEN data[key] ELSE ctxMap(rt, tenantID)],
     data |-> data, rt |-> rt]

\* handler.go 16-20: the map handed to the invoker, a new map with the
\* entries of t.Data and then __ctx; with it, t.Data and the runtime context
\* as the statements leave them (they are only read)
mergeCtx(data, rt, tenantID) ==
    [merged |-> [key \in DOMAIN data \cup {"__ctx"} |->
                    IF key = "__ctx" THEN ctxMap(rt, tenantID) ELSE data[key]],
     data |-> data, rt |-> rt]

\* exec.go 32-40: what the script is given, -InputJson with the data and
\* stdin with {action, data}; the JSON texts are represented by the values
\* they encode
scriptInput(action, data) ==
    [InputJson |-> data, stdin |-> [action |-> action, data |-> data]]

\* handler.go 25-38: what HandleTask returns for the invoker's answer
handlerReturn(raw, err) ==
    LET p == ParseJSON(raw)
    IN  IF ~p.err
        THEN IF ~err.nil
             THEN [result |-> p.v, err |-> Err("action script failed")]
             ELSE [result |-> p.v, err |-> Nil]
        ELSE IF ~err.nil
             THEN [result |-> JObj([ok |-> JBool(FALSE), raw |-> JStr(raw)]),
                   err |-> Err("action script failed")]
             ELSE [result |-> JObj([ok |-> JBool(TRUE), raw |-> JStr(raw)]),
                   err |-> Nil]

\* handler.go 12-39
HandleTask(task, env) ==
    LET r == RunActionScript(task.action, env)
        h == handlerReturn(r.out, r.err)
    IN  [result |-> h.result, err |-> h.err, runs |-> r.runs, last |-> r.last]

\* the tasks HandleTask is called with: the tenant, the action, and a data
\* mapping that may hold a name, a tenantId and a __ctx of the caller's
Tenants == {"", "t1", "t2"}
Actions == {"vm.power", "vm.create"}
CallerCtx ==
    {JStr("mine"), JNull,
     [agentId |-> "HOST-B", tenantId |-> "t2", basePath |-> <<"elsewhere">>,
      paths |-> [root |-> <<>>], datastores |-> <<>>]}
DataEntries ==
    [name : {"", "vm1", "vm2"}, tenantId : {"", "t9"}, ctx : BOOLEAN]
DataOf(e, callerCtx) ==
    [key \in (IF e.name /= "" THEN {"name"} ELSE {})
             \cup (IF e.tenantId /= "" THEN {"tenantId"} ELSE {})
             \cup (IF e.ctx THEN {"__ctx"} ELSE {}) |->
        CASE key = "name" -> JStr(e.name)
          [] key = "tenantId" -> JStr(e.tenantId)
          [] key = "__ctx" -> callerCtx]
TaskData == {DataOf(e, x) : e \in DataEntries, x \in CallerCtx}

handFrame == UNCHANGED <<tel, cfg, fsVars, sessVars, now, loopVars, unitVars>>

\* handler.go 12-23: HandleTask is called and hands the merged data to the
\* invoker
HandleMerge ==
    /\ hand = NoHandle
    /\ \E tenantID \in Tenants, action \in Actions, data \in TaskData :
         LET m == mergeCtx(data, RuntimeCtx, tenantID)
         IN  hand' = [pc |-> "called",
                      task |-> [tenantId |-> tenantID, action |-> action, data |-> data],
                      input |-> scriptInput(action, m.merged),
                      data |-> m.data, rt |-> m.rt]
    /\ handFrame

\* HandleTask returns
HandleOver ==
    /\ hand.pc = "called"
    /\ hand' = NoHandle
    /\ handFrame

\* ------------------------------------------------------------ consume loop

\* main.go 151: the agent installs AfterResult before it starts the consumer
AfterResultSet == TRUE

\* mutant of poisonCall: the poison message goes back to the queue
poisonCall_Requeue == [op |-> "nack", multiple |-> FALSE, requeue |-> TRUE]

\* consumer.go 102: a body that does not decode is dropped
poisonCall == [op |-> "nack", multiple |-> FALSE, requeue |-> FALSE]

\* mutant of isForOtherAgent: the test for an empty agentId is missing
isForOtherAgent_NoEmptyTest(task) == task.agentId /= AgentID

\* consumer.go 107: the task names another agent
isForOtherAgent(task) == task.agentId /= "" /\ task.agentId /= AgentID

\* consumer.go 108: a task for another agent is acknowledged
misroutedCall == [op |-> "ack", multiple |-> FALSE, requeue |-> FALSE]

\* mutant of settleCall: the handler's error is not looked at
settleCall_AlwaysAck(err) == [op |-> "ack", multiple |-> FALSE, requeue |-> FALSE]

\* consumer.go 113-122: the acknowledgement that follows the handler
settleCall(err) ==
    IF err.nil
    THEN [op |-> "ack", multiple |-> FALSE, requeue |-> FALSE]
    ELSE [op |-> "nack", multiple |-> FALSE, requeue |-> FALSE]

\* mutant of corrOf: no fallback to the taskId
corrOf_NoFallback(task) == task.correlationId

\* consumer.go 125-128
corrOf(task) == IF task.correlationId = "" THEN task.taskId ELSE task.correlationId

\* mutant of errMsgOf: the handler's error is not used as a fallback
errMsgOf_ResultOnly(res, err) ==
    IF /\ res.k = "obj"
       /\ "error" \in DOMAIN res.m
       /\ res.m["error"].k = "str"
    THEN res.m["error"].s
    ELSE ""

\* consumer.go 131-139
errMsgOf(res, err) ==
    LET fromResult ==
            IF /\ res.k = "obj"
               /\ "error" \in DOMAIN res.m
               /\ res.m["error"].k = "str"
               /\ res.m["error"].s /= ""
            THEN res.m["error"].s
            ELSE ""
    IN  IF fromResult = "" /\ ~err.nil THEN err.msg ELSE fromResult

\* consumer.go 141-150: the envelope; its bytes are represented by the value
\* they encode (the result came out of json.Unmarshal, so Marshal succeeds)
resultEnvelope(task, res, err, ts) ==
    [taskId |-> task.taskId, agentId |-> AgentID, ok |-> err.nil,
     result |-> res, error |-> errMsgOf(res, err), finishedAt |-> ts]

\* consumer.go 152-162
resultPublish(task, body) ==
    [op |-> "publish", exchange |-> ResultsEx, key |-> "task." \o task.taskId,
     mandatory |-> TRUE, immediate |-> FALSE, contentType |-> "application/json",
     deliveryMode |-> "persistent", corr |-> corrOf(task), body |-> body]

\* consumer.go 168
wantsReply(task) == task.replyTo /= ""

\* consumer.go 169
replyDeclare(task) ==
    [op |-> "qdeclare", name |-> task.replyTo, durable |-> TRUE,
     autoDelete |-> FALSE, exclusive |-> FALSE, noWait |-> FALSE]

\* mutant of replyPublish: the envelope is built again for the reply
replyPublish_Rebuilt(task, body) ==
    [op |-> "publish", exchange |-> "", key |-> task.replyTo,
     mandatory |-> TRUE, immediate |-> FALSE, contentType |-> "application/json",
     deliveryMode |-> "persistent", corr |-> corrOf(task),
     body |-> [body EXCEPT !.finishedAt = now]]

\* consumer.go 170-179
replyPublish(task, body) ==
    [op |-> "publish", exchange |-> "", key |-> task.replyTo,
     mandatory |-> TRUE, immediate |-> FALSE, contentType |-> "application/json",
     deliveryMode |-> "persistent", corr |-> corrOf(task), body |-> body]

\* a loop body that goes from the handler to the publication
after_NoSettle(step, task) ==
    CASE step = "handle" -> "publish"
      [] step = "settle" -> "publish"
      [] step = "publish" -> IF wantsReply(task) THEN "replydecl" ELSE "hook"
      [] step = "replydecl" -> "replypub"
      [] step = "replypub" -> "hook"
      [] step = "hook" -> "next"

\* a loop body that leaves the publications to another goroutine and goes
\* on to the next delivery once it has settled this one
after_NoWait(step, task) ==
    CASE step = "handle" -> "settle"
      [] step = "settle" -> "next"
      [] step = "publish" -> IF wantsReply(task) THEN "replydecl" ELSE "hook"
      [] step = "replydecl" -> "replypub"
      [] step = "replypub" -> "hook"
      [] step = "hook" -> "next"

\* a loop body that launches the hook before it publishes
after_HookFirst(step, task) ==
    CASE step = "handle" -> "settle"
      [] step = "settle" -> "hook"
      [] step = "hook" -> "publish"
      [] step = "publish" -> IF wantsReply(task) THEN "replydecl" ELSE "next"
      [] step = "replydecl" -> "replypub"
      [] step = "replypub" -> "next"

\* consumer.go 112-188: the statement the loop body reaches after a step
after(step, task) ==
    CASE step = "handle" -> "settle"
      [] step = "settle" -> "publish"
      [] step = "publish" -> IF wantsReply(task) THEN "replydecl" ELSE "hook"
      [] step = "replydecl" -> "replypub"
      [] step = "replypub" -> "hook"
      [] step = "hook" -> "next"

\* a call on the loop's channel reaches the broker iff the channel is open
onChannel(call) == call @@ [sent |-> c \in liveCh]

\* the publisher before the tickers are started, and between two publishes
PubOff == [pc |-> "off", i |-> 0, c |-> 0, lastErr |-> Nil, ret |-> Nil,
           n |-> 0, sent |-> FALSE, log |-> <<>>]
PubIdle == [PubOff EXCEPT !.pc = "idle"]

\* main at a position, with no retry loop in progress
MainAt(pos) == [pc |-> pos, i |-> 0, lastErr |-> Nil, ret |-> Nil, log |-> <<>>,
                seen |-> 0]

ClearTask ==
    /\ d' = JNull
    /\ t' = ZeroTask
    /\ result' = JNull
    /\ hErr' = Nil
    /\ b' = JNull
    /\ lastRun' = <<>>

\* the session as a call of ensureChannel leaves it
SetSession(r) ==
    /\ conn' = r.conn
    /\ ch' = r.ch
    /\ liveConn' = r.liveConn
    /\ liveCh' = r.liveCh
    /\ exch' = r.exch

Min(x, y) == IF x <= y THEN x ELSE y

\* consumer.go 52-57, publisher.go 175-187: ensureChannelWithRetry(0, 3s), one
\* try of it.  With attempts = 0 the loop condition holds whatever i is, so
\* the loop has no other exit than success, and neither i nor lastErr is
\* ever read; the model keeps of them only sup, the number of tries in a row
\* that the broker refused at an exchange declaration (it saturates at
\* MaxTries).
Ensure ==
    /\ pc = "ensure"
    /\ \A i \in 0..MaxTries : moreTries(0, i)
    /\ \E dial \in DialOutcomes :
         LET r == ensureChannel(dial, NewId)
         IN  /\ SetSession(r)
             /\ c' = IF r.ok THEN r.c ELSE c
             /\ pc' = IF r.ok THEN "qdeclare" ELSE "ensure"
             /\ sup' = IF isDeclareError(r.err) THEN Min(sup + 1, MaxTries) ELSE 0
    /\ setup' = <<>>
    /\ UNCHANGED <<brokerUp, amqpURL, now, taskVars, calls, unitVars, fsVars, hostVars>>

\* consumer.go 60, 66, 74, 81-89: the call the loop makes at a position,
\* with its arguments
setupCall(step) ==
    CASE step = "qdeclare" ->
           [op |-> "QueueDeclare", name |-> queueName, durable |-> TRUE,
            autoDelete |-> FALSE, exclusive |-> FALSE, noWait |-> FALSE]
      [] step = "qbind" ->
           [op |-> "QueueBind", name |-> queueName, key |-> AgentID,
            exchange |-> JobsEx, noWait |-> FALSE]
      [] step = "qos" ->
           [op |-> "Qos", prefetchCount |-> Prefetch, prefetchSize |-> 0,
            global |-> FALSE]
      [] step = "consume" ->
           [op |-> "Consume", queue |-> queueName,
            consumer |-> "agent-" \o AgentID, autoAck |-> FALSE,
            exclusive |-> FALSE, noLocal |-> FALSE, noWait |-> FALSE]

\* a setup step that goes on to the next call when the call failed
SetupStep_GoOn(from, to) ==
    /\ pc = from
    /\ \E ok \in (IF c \in liveCh THEN BOOLEAN ELSE {FALSE}) :
         /\ setup' = Append(setup, setupCall(from) @@ [ch |-> c, ok |-> ok])
         /\ pc' = to
         /\ IF ok
            THEN UNCHANGED <<conn, ch, liveConn, liveCh>>
            ELSE /\ conn' = resetConnection.conn
                 /\ ch' = resetConnection.ch
                 /\ liveConn' = resetConnection.liveConn
                 /\ liveCh' = resetConnection.liveCh
    /\ UNCHANGED <<brokerUp, amqpURL, exch, now, c, taskVars, calls, sup, unitVars, fsVars, hostVars>>

\* One of the four calls that set the consumer up.  It fails when the channel
\* is closed, or when the broker answers with a channel exception (which
\* closes the channel); the loop then resets the session and starts over.
SetupStep(from, to) ==
    /\ pc = from
    /\ \E ok \in (IF c \in liveCh THEN BOOLEAN ELSE {FALSE}) :
         /\ setup' = Append(setup, setupCall(from) @@ [ch |-> c, ok |-> ok])
         /\ IF ok
            THEN /\ pc' = to
                 /\ UNCHANGED <<conn, ch, liveConn, liveCh>>
            ELSE /\ pc' = "ensure"
                 /\ conn' = resetConnection.conn
                 /\ ch' = resetConnection.ch
                 /\ liveConn' = resetConnection.liveConn
                 /\ liveCh' = resetConnection.liveCh \ {c}
    /\ UNCHANGED <<brokerUp, amqpURL, exch, now, c, taskVars, calls, sup, unitVars, fsVars, hostVars>>

\* consumer.go 60-65
QueueDeclare == SetupStep("qdeclare", "qbind")
\* consumer.go 66-71
QueueBind == SetupStep("qbind", "qos")
\* consumer.go 74-79
Qos == SetupStep("qos", "consume")
\* consumer.go 81-95
Consume == SetupStep("consume", "recv")

\* consumer.go 98-110: the loop takes a delivery, decodes it and drops it
\* when it is poison or names another agent
ReceiveFrom(queue) ==
    /\ pc \in {"recv", "next"}
    /\ c \in liveCh
    /\ \E body \in queue :
         LET u == UnmarshalTask(body)
         IN  /\ d' = body
             /\ t' = u.t
             /\ IF u.err
                THEN /\ calls' = <<onChannel(poisonCall)>>
                     /\ pc' = "next"
                ELSE IF isForOtherAgent(u.t)
                THEN /\ calls' = <<onChannel(misroutedCall)>>
                     /\ pc' = "next"
                ELSE /\ calls' = <<>>
                     /\ pc' = "handle"
    /\ result' = JNull
    /\ hErr' = Nil
    /\ b' = JNull
    /\ lastRun' = <<>>
    /\ UNCHANGED <<sessVars, now, c, sup, unitVars, fsVars, hostVars, setup>>

Receive == ReceiveFrom(Bodies)

\* consumer.go 112: handle(t), on a host that behaves as env
HandleOn(hosts) ==
    /\ pc = "handle"
    /\ \E env \in hosts :
         LET h == HandleTask(t, env)
         IN  /\ result' = h.result
             /\ hErr' = h.err
             /\ lastRun' = h.last
             /\ calls' = calls \o h.runs
    /\ pc' = after("handle", t)
    /\ UNCHANGED <<sessVars, now, c, d, t, b, sup, unitVars, fsVars, hostVars, setup>>

Handle == HandleOn(Envs)

\* consumer.go 113-122
Settle ==
    /\ pc = "settle"
    /\ calls' = Append(calls, onChannel(settleCall(hErr)))
    /\ pc' = after("settle", t)
    /\ UNCHANGED <<sessVars, now, c, taskVars, sup, unitVars, fsVars, hostVars, setup>>

\* consumer.go 124-165
PublishResult ==
    /\ pc = "publish"
    /\ LET body == resultEnvelope(t, result, hErr, now)
       IN  /\ b' = body
           /\ calls' = Append(calls, onChannel(resultPublish(t, body)))
    /\ pc' = after("publish", t)
    /\ UNCHANGED <<sessVars, now, c, d, t, result, hErr, lastRun, sup, unitVars, fsVars, hostVars, setup>>

\* consumer.go 169
ReplyDeclare ==
    /\ pc = "replydecl"
    /\ calls' = Append(calls, onChannel(replyDeclare(t)))
    /\ pc' = after("replydecl", t)
    /\ UNCHANGED <<sessVars, now, c, taskVars, sup, unitVars, fsVars, hostVars, setup>>

\* consumer.go 170-182
ReplyPublish ==
    /\ pc = "replypub"
    /\ calls' = Append(calls, onChannel(replyPublish(t, b)))
    /\ pc' = after("replypub", t)
    /\ UNCHANGED <<sessVars, now, c, taskVars, sup, unitVars, fsVars, hostVars, setup>>

\* consumer.go 186-188
Hook ==
    /\ pc = "hook"
    /\ calls' = IF AfterResultSet THEN Append(calls, [op |-> "hook", task |-> t])
                ELSE calls
    /\ pc' = after("hook", t)
    /\ UNCHANGED <<sessVars, now, c, taskVars, sup, unitVars, fsVars, hostVars, setup>>

\* a loop that returns when its delivery channel is closed
Closed_Exit ==
    /\ pc \in {"recv", "next"}
    /\ c \notin liveCh
    /\ pc' = "off"
    /\ ClearTask
    /\ calls' = <<>>
    /\ UNCHANGED <<sessVars, now, c, sup, unitVars, fsVars, hostVars, setup>>

\* consumer.go 190-191: the delivery channel was closed, the loop starts over
Closed ==
    /\ pc \in {"recv", "next"}
    /\ c \notin liveCh
    /\ pc' = "ensure"
    /\ ClearTask
    /\ calls' = <<>>
    /\ UNCHANGED <<sessVars, now, c, sup, unitVars, fsVars, hostVars, setup>>

\* ------------------------------------------------------------- environment

\* the broker goes away: every connection and channel to it is closed
BrokerFail ==
    /\ brokerUp
    /\ brokerUp' = FALSE
    /\ liveConn' = {}
    /\ liveCh' = {}
    /\ UNCHANGED <<amqpURL, conn, ch, exch, now, loopVars, unitVars, fsVars, hostVars>>

BrokerRecover ==
    /\ ~brokerUp
    /\ brokerUp' = TRUE
    /\ UNCHANGED <<amqpURL, conn, ch, liveConn, liveCh, exch, now, loopVars, unitVars, fsVars, hostVars>>

\* time passes
Tick ==
    /\ now < MaxNow
    /\ now' = now + 1
    /\ UNCHANGED <<sessVars, loopVars, unitVars, fsVars, hostVars>>

\* main.go 146-148, consumer.go 40-44: the consume loop starts after
\* InitPublisher and StartTaskConsumer found the session ready
Init ==
    /\ brokerUp = TRUE
    /\ amqpURL = Url
    /\ conn = 1
    /\ ch = 1
    /\ liveConn = {1}
    /\ liveCh = {1}
    /\ exch = [i \in Ids |-> IF i = 1 THEN Exchanges ELSE <<>>]
    /\ sup = 0
    /\ pub = PubOff
    /\ mn = MainAt("run")
    /\ foldCase = TRUE
    /\ FsQuiet
    /\ now = 0
    /\ pc = "ensure"
    /\ c = 0
    /\ d = JNull
    /\ t = ZeroTask
    /\ result = JNull
    /\ hErr = Nil
    /\ b = JNull
    /\ lastRun = <<>>
    /\ calls = <<>>
    /\ setup = <<>>

\* consumer.go 48-193: one step of the consume loop
consumeLoop ==
    \/ Ensure
    \/ QueueDeclare
    \/ QueueBind
    \/ Qos
    \/ Consume
    \/ Receive
    \/ Handle
    \/ Settle
    \/ PublishResult
    \/ ReplyDeclare
    \/ ReplyPublish
    \/ Hook
    \/ Closed

Next ==
    \/ consumeLoop
    \/ BrokerFail
    \/ BrokerRecover
    \/ Tick

Spec == Init /\ [][Next]_vars

\* the deliveries and the hosts of the runs in which the broker fails and
\* comes back: a task that asks for a reply and a poison message, on a host
\* whose script succeeds or fails
LiveBodies == {TaskBody("T1", AgentID, "reply.T1", ""), JInvalid}
LiveEnvs ==
    {[pwsh |-> TRUE, script |-> TRUE, r1 |-> r, r2 |-> r] :
        r \in {[exit |-> 0, out |-> OutOkEnv, stderr |-> ""],
               [exit |-> 1, out |-> OutEmpty, stderr |-> ErrBoom]}}

LiveReceive == ReceiveFrom(LiveBodies)
LiveHandle == HandleOn(LiveEnvs)

\* the steps the loop takes by itself (a Receive needs a delivery)
loopProgress ==
    \/ Ensure
    \/ QueueDeclare
    \/ QueueBind
    \/ Qos
    \/ Consume
    \/ LiveHandle
    \/ Settle
    \/ PublishResult
    \/ ReplyDeclare
    \/ ReplyPublish
    \/ Hook
    \/ Closed

LiveNext ==
    \/ loopProgress
    \/ LiveReceive
    \/ BrokerFail
    \/ BrokerRecover

\* The consume loop under fair scheduling: the goroutine of the loop is not
\* starved (its sleeps end and its calls return), and a broker that is
\* reachable again and again does not refuse the same call of the loop for
\* ever.
FairSpec ==
    /\ Init
    /\ [][LiveNext]_vars
    /\ WF_vars(loopProgress)
    /\ SF_vars(Ensure /\ pc' = "qdeclare")
    /\ SF_vars(QueueDeclare /\ pc' = "qbind")
    /\ SF_vars(QueueBind /\ pc' = "qos")
    /\ SF_vars(Qos /\ pc' = "consume")
    /\ SF_vars(Consume /\ pc' = "recv")

\* ------------------------------------------------------------------- main

InitAttempts == 3       \* publisher.go 31, consumer.go 41

\* one try of ensureChannelWithRetry(3, 2s) by main: the session and the
\* retry loop after it.  log keeps what the broker answered to each try.
MainTry(dial) ==
    LET r == ensureChannel(dial, NewId)
    IN  /\ SetSession(r)
        /\ mn' = IF r.ok
                 THEN [mn EXCEPT !.ret = Nil, !.log = Append(@, dial)]
                 ELSE [mn EXCEPT !.lastErr = r.err, !.i = @ + 1,
                                 !.log = Append(@, dial)]

\* main.go 146, publisher.go 28-29: InitPublisher(cfg.RabbitMQURL) stores
\* the URL
InitPublisher ==
    /\ mn.pc = "boot"
    /\ \E url \in {"", Url} : amqpURL' = url
    /\ mn' = MainAt("init")
    /\ UNCHANGED <<brokerUp, conn, ch, liveConn, liveCh, exch, now, loopVars, pub, fsVars, hostVars>>

\* publisher.go 31, 175-185: one try of InitPublisher
InitTry ==
    /\ mn.pc = "init"
    /\ Len(mn.log) = mn.i
    /\ moreTries(InitAttempts, mn.i)
    /\ \E dial \in DialOutcomes : MainTry(dial)
    /\ UNCHANGED <<brokerUp, amqpURL, now, loopVars, pub, fsVars, hostVars>>

\* publisher.go 31-35, main.go 149-206: InitPublisher returned nil; main
\* registers the hook and starts the tickers, then calls StartTaskConsumer
InitDone ==
    /\ mn.pc = "init"
    /\ Len(mn.log) > mn.i
    /\ mn' = MainAt("start")
    /\ pub' = PubIdle
    /\ UNCHANGED <<sessVars, now, loopVars, fsVars, hostVars>>

\* publisher.go 186, 32, main.go 147: the tries are used up, InitPublisher
\* returns the error and log.Fatalf ends the process
InitFailed ==
    /\ mn.pc = "init"
    /\ Len(mn.log) = mn.i
    /\ ~moreTries(InitAttempts, mn.i)
    /\ mn' = [mn EXCEPT !.pc = "initFatal",
                        !.ret = retryError(InitAttempts, mn.lastErr)]
    /\ UNCHANGED <<sessVars, now, loopVars, pub, fsVars, hostVars>>

\* the process ends: the operating system closes its sockets, and no unit
\* of it takes another step
ProcessEnds ==
    /\ liveConn' = {}
    /\ liveCh' = {}
    /\ pc' = "off"
    /\ pub' = PubOff
    /\ UNCHANGED <<brokerUp, amqpURL, conn, ch, exch, now, c, taskVars, calls, sup, fsVars, hostVars, setup>>

\* consumer.go 40-42: one try of StartTaskConsumer
StartTry ==
    /\ mn.pc = "start"
    /\ Len(mn.log) = mn.i
    /\ moreTries(InitAttempts, mn.i)
    /\ \E dial \in DialOutcomes : MainTry(dial)
    /\ UNCHANGED <<brokerUp, amqpURL, now, loopVars, pub, fsVars, hostVars>>

\* consumer.go 43-45: the session is there, `go consumeLoop(...)`
StartDone ==
    /\ mn.pc = "start"
    /\ Len(mn.log) > mn.i
    /\ mn' = MainAt("run")
    /\ pc' = "ensure"
    /\ UNCHANGED <<sessVars, now, c, taskVars, calls, sup, pub, fsVars, hostVars, setup>>

\* consumer.go 41-42, main.go 209-211: StartTaskConsumer fails, log.Fatalf
StartFailed ==
    /\ mn.pc = "start"
    /\ Len(mn.log) = mn.i
    /\ ~moreTries(InitAttempts, mn.i)
    /\ mn' = [mn EXCEPT !.pc = "startFatal",
                        !.ret = Wrap("AMQP not initialized",
                                     retryError(InitAttempts, mn.lastErr))]
    /\ ProcessEnds

\* ClosePublisher reads ch and conn without holding connMu, while the other
\* units write them under it.  Each `if x != nil { x.Close() }` is two
\* reads: the second one yields the value of the first (the build kept it
\* in a register) or the value stored meanwhile; calling Close on a nil
\* pointer panics and ends the process.

\* main.go 216-219, 149, publisher.go 39: the signal arrives, main returns,
\* the deferred ClosePublisher tests ch
CloseChTest ==
    /\ mn.pc = "run"
    /\ mn' = [mn EXCEPT !.pc = IF ch /= 0 THEN "chClose" ELSE "connTest",
                        !.seen = ch]
    /\ UNCHANGED <<sessVars, now, loopVars, pub, fsVars, hostVars>>

\* the values a second unsynchronised read of x can yield
Reread(x) == {mn.seen, x}

\* publisher.go 40: ch.Close()
CloseChCall ==
    /\ mn.pc = "chClose"
    /\ \E x \in Reread(ch) :
         IF x = 0
         THEN /\ mn' = MainAt("exited")
              /\ ProcessEnds
         ELSE /\ liveCh' = liveCh \ {x}
              /\ mn' = [mn EXCEPT !.pc = "connTest", !.seen = 0]
              /\ UNCHANGED <<brokerUp, amqpURL, conn, ch, liveConn, exch, now,
                             loopVars, pub, fsVars, hostVars>>

\* publisher.go 42
CloseConnTest ==
    /\ mn.pc = "connTest"
    /\ mn' = [mn EXCEPT !.pc = IF conn /= 0 THEN "connClose" ELSE "setNil",
                        !.seen = conn]
    /\ UNCHANGED <<sessVars, now, loopVars, pub, fsVars, hostVars>>

\* publisher.go 43: conn.Close(), which closes the channels of conn
CloseConnCall ==
    /\ mn.pc = "connClose"
    /\ \E x \in Reread(conn) :
         IF x = 0
         THEN /\ mn' = MainAt("exited")
              /\ ProcessEnds
         ELSE /\ liveConn' = liveConn \ {x}
              /\ liveCh' = liveCh \ {x}
              /\ mn' = [mn EXCEPT !.pc = "setNil", !.seen = 0]
              /\ UNCHANGED <<brokerUp, amqpURL, conn, ch, exch, now, loopVars, pub, fsVars, hostVars>>

\* publisher.go 45-48: under connMu, ch = nil and conn = nil; ClosePublisher
\* returns
CloseSetNil ==
    /\ mn.pc = "setNil"
    /\ ch' = 0
    /\ conn' = 0
    /\ mn' = MainAt("closed")
    /\ UNCHANGED <<brokerUp, amqpURL, liveConn, liveCh, exch, now, loopVars, pub, fsVars, hostVars>>

\* main returned: the process exits
Exit ==
    /\ mn.pc = "closed"
    /\ mn' = MainAt("exited")
    /\ ProcessEnds

\* -------------------------------------------------------- telemetry publisher

PublishAttempts == 3    \* publisher.go 249

\* what Publish on the publisher's channel can return
FnOutcomes ==
    IF pub.c \in liveCh THEN {Nil, ErrForced, ErrWrite} ELSE {ErrClosed}

\* main.go 170, 196, publisher.go 247-248: a ticker fires and the publisher
\* enters publishWithRetry
PubCall ==
    /\ pub.pc = "idle"
    /\ pub' = [PubIdle EXCEPT !.pc = "ensure"]
    /\ UNCHANGED <<sessVars, now, loopVars, mn, fsVars, hostVars>>

\* publisher.go 249-255: an iteration starts with ensureChannel; when it
\* fails the iteration sleeps and ends.  log holds what the iteration did.
PubEnsure ==
    /\ pub.pc = "ensure"
    /\ pub.i < PublishAttempts
    /\ \E dial \in DialOutcomes :
         LET r == ensureChannel(dial, NewId)
         IN  /\ SetSession(r)
             /\ pub' = IF r.ok
                       THEN [pub EXCEPT !.pc = "send", !.c = r.c, !.n = @ + 1,
                                        !.log = <<[op |-> "ensure", err |-> Nil]>>]
                       ELSE [pub EXCEPT !.lastErr = r.err, !.i = @ + 1, !.c = 0,
                                        !.n = @ + 1,
                                        !.log = <<[op |-> "ensure", err |-> r.err],
                                                  [op |-> "sleep"]>>]
    /\ UNCHANGED <<brokerUp, amqpURL, now, loopVars, mn, fsVars, hostVars>>

\* publisher.go 257-266: fn(c), and what the iteration does with its error
PubSend ==
    /\ pub.pc = "send"
    /\ \E err \in FnOutcomes :
         LET ev == [op |-> "fn", err |-> err]
         IN  pub' = IF err.nil
                    THEN [pub EXCEPT !.pc = "ret", !.ret = Nil, !.c = 0,
                                     !.sent = TRUE, !.log = Append(@, ev)]
                    ELSE IF isConnErr(err)
                    THEN [pub EXCEPT !.pc = "reset", !.lastErr = err,
                                     !.log = Append(@, ev)]
                    ELSE [pub EXCEPT !.pc = "ret", !.lastErr = err, !.ret = err,
                                     !.c = 0, !.log = Append(@, ev)]
    /\ UNCHANGED <<sessVars, now, loopVars, mn, fsVars, hostVars>>

\* publisher.go 260-262: resetConnection(), time.Sleep(2s), continue
PubReset ==
    /\ pub.pc = "reset"
    /\ conn' = resetConnection.conn
    /\ ch' = resetConnection.ch
    /\ liveConn' = resetConnection.liveConn
    /\ liveCh' = resetConnection.liveCh
    /\ pub' = [pub EXCEPT !.pc = "ensure", !.i = @ + 1, !.c = 0,
                          !.log = @ \o <<[op |-> "reset"], [op |-> "sleep"]>>]
    /\ UNCHANGED <<brokerUp, amqpURL, exch, now, loopVars, mn, fsVars, hostVars>>

\* publisher.go 268: the iterations are used up, return lastErr
PubGiveUp ==
    /\ pub.pc = "ensure"
    /\ ~(pub.i < PublishAttempts)
    /\ pub' = [pub EXCEPT !.pc = "ret", !.ret = pub.lastErr]
    /\ UNCHANGED <<sessVars, now, loopVars, mn, fsVars, hostVars>>

\* main.go 170-172, 196-203: the caller logs the error and waits for the
\* next tick
PubReturn ==
    /\ pub.pc = "ret"
    /\ pub' = PubIdle
    /\ UNCHANGED <<sessVars, now, loopVars, mn, fsVars, hostVars>>

publishWithRetry ==
    \/ PubCall
    \/ PubEnsure
    \/ PubSend
    \/ PubReset
    \/ PubGiveUp
    \/ PubReturn

\* ------------------------------------------------------------- the process

\* main.go 145: the process before InitPublisher
SessionInit ==
    /\ brokerUp = TRUE
    /\ amqpURL = ""
    /\ conn = 0
    /\ ch = 0
    /\ liveConn = {}
    /\ liveCh = {}
    /\ exch = [i \in Ids |-> <<>>]
    /\ now = 0
    /\ pc = "off"
    /\ c = 0
    /\ d = JNull
    /\ t = ZeroTask
    /\ result = JNull
    /\ hErr = Nil
    /\ b = JNull
    /\ lastRun = <<>>
    /\ calls = <<>>
    /\ setup = <<>>
    /\ sup = 0
    /\ pub = PubOff
    /\ mn = MainAt("boot")
    /\ foldCase = TRUE
    /\ FsQuiet

\* main.go 145-220: InitPublisher, StartTaskConsumer, ClosePublisher
main ==
    \/ InitPublisher
    \/ InitTry
    \/ InitDone
    \/ InitFailed
    \/ StartTry
    \/ StartDone
    \/ StartFailed
    \/ CloseChTest
    \/ CloseChCall
    \/ CloseConnTest
    \/ CloseConnCall
    \/ CloseSetNil
    \/ Exit

\* consumer.go 48-97, 190-191: the steps by which the loop supervises the
\* session (no delivery arrives)
supervise ==
    \/ Ensure
    \/ QueueDeclare
    \/ QueueBind
    \/ Qos
    \/ Consume
    \/ Closed

SessionNext ==
    \/ main
    \/ publishWithRetry
    \/ supervise
    \/ BrokerFail
    \/ BrokerRecover

SessionSpec == SessionInit /\ [][SessionNext]_vars

\* ------------------------------------------------------------ configuration
\* The int of the build is 64 bits wide and so is time.Duration; a value is
\* kept as its eight bytes, the low one first, in two's complement.

RECURSIVE bytesOf(_, _)
bytesOf(n, k) == IF k = 0 THEN <<>> ELSE <<n % 256>> \o bytesOf(n \div 256, k - 1)

I64(n) == bytesOf(n, 8)                     \* for 0 <= n < 2^31
MinusOne == [k \in 1..8 |-> 255]            \* -1
NineBillion == <<4, 125, 193, 37, 2, 0, 0, 0>>      \* 9223372036
NineBillionOne == <<5, 125, 193, 37, 2, 0, 0, 0>>   \* 9223372037
TwoTo55 == <<0, 0, 0, 0, 0, 0, 128, 0>>             \* 36028797018963968

Second == <<0, 202, 154, 59, 0, 0, 0, 0>>   \* time.Second, 1000000000 ns

\* x <= 0
NotPositive(x) == x[8] >= 128 \/ x = I64(0)

RECURSIVE columnSum(_, _, _, _)
columnSum(x, y, k, i) ==
    IF i > k THEN 0 ELSE x[i] * y[k + 1 - i] + columnSum(x, y, k, i + 1)

RECURSIVE mulFrom(_, _, _, _)
mulFrom(x, y, k, carry) ==
    IF k > 8 THEN <<>>
    ELSE LET total == columnSum(x, y, k, 1) + carry
         IN  <<total % 256>> \o mulFrom(x, y, k + 1, total \div 256)

\* x * y as the machine computes it, modulo 2^64
Mul64(x, y) == mulFrom(x, y, 1, 0)

\* what the configuration file can hold
Seconds == {MinusOne, I64(0), I64(1), I64(30), NineBillion, NineBillionOne, TwoTo55}
ConfigFiles ==
    [valid : BOOLEAN, hb : Seconds, inv : Seconds,
     caps : {<<>>, <<"vm.power">>}, hasCaps : BOOLEAN]

\* config.go 17-37
Load(file) ==
    IF ~file.valid THEN [err |-> Err("invalid config"), cfg |-> NoConfig]
    ELSE LET caps == IF file.hasCaps THEN file.caps ELSE <<>>
         IN  [err |-> Nil,
              cfg |-> [HeartbeatIntervalSec |->
                          IF NotPositive(file.hb) THEN I64(30) ELSE file.hb,
                       InventoryIntervalSec |->
                          IF NotPositive(file.inv) THEN I64(60) ELSE file.inv,
                       Capabilities |->
                          IF Len(caps) = 0 THEN <<"inventory", "vm.power">> ELSE caps]]

cfgFrame == UNCHANGED <<tel, hand, fsVars, sessVars, now, loopVars, unitVars>>

\* main.go 126-129: the configuration is loaded, or the process ends
LoadConfig ==
    /\ cfg.pc = "none"
    /\ \E file \in ConfigFiles :
          LET r == Load(file)
          IN  cfg' = IF ~r.err.nil THEN [pc |-> "fatal", file |-> file]
                     ELSE [pc |-> "loaded", file |-> file, cfg |-> r.cfg]
    /\ cfgFrame

\* main.go 160-166, 180-181: the periods are computed and the two tickers
\* made; time.NewTicker panics on a period that is not positive
StartTickers ==
    /\ cfg.pc = "loaded"
    /\ LET hbEvery == Mul64(cfg.cfg.HeartbeatIntervalSec, Second)
           invEvery == Mul64(cfg.cfg.InventoryIntervalSec, Second)
       IN  cfg' = [cfg EXCEPT !.pc = IF NotPositive(hbEvery) \/ NotPositive(invEvery)
                                      THEN "panic" ELSE "ticking"]
                     @@ [hbEvery |-> hbEvery, invEvery |-> invEvery]
    /\ cfgFrame

\* ---------------------------------------------------------------- telemetry

\* the hosts on which the inventory scripts run
InventoryRuns == [exit : {0, 1}, out : Stdouts \cup {OutOkBare, OutPretty}, stderr : Stderrs]
InventoryHosts == [pwsh : BOOLEAN, script : BOOLEAN, r1 : InventoryRuns, r2 : InventoryRuns]

\* json.Unmarshal(raw, &r) into the struct with the fields ok (bool),
\* result and error (main.go 23-27, telemetry_light.go 36-40): an error
\* unless raw is a JSON object whose ok is a boolean
unmarshalResp(raw) ==
    LET p == ParseJSON(raw)
        bad == [err |-> TRUE, ok |-> FALSE, has |-> FALSE, result |-> JNull]
    IN  IF p.err THEN bad
        ELSE IF p.v.k /= "obj" THEN bad
        ELSE IF "ok" \in DOMAIN p.v.m /\ p.v.m.ok.k \notin {"bool", "null"} THEN bad
        ELSE [err |-> FALSE,
              ok |-> "ok" \in DOMAIN p.v.m /\ p.v.m.ok = JBool(TRUE),
              has |-> "result" \in DOMAIN p.v.m,
              result |-> IF "result" \in DOMAIN p.v.m THEN p.v.m.result ELSE JNull]

\* json.Marshal of a value that json.Unmarshal made
EncodeJSON(v) ==
    CASE v = JNull -> "null"
      [] v = JObj([state |-> JStr("Running")]) -> OutResult
      [] OTHER -> "?"

\* encoding/json compact, which json.Marshal applies to a json.RawMessage
Compact(s) == IF s = OutPretty THEN OutPlain ELSE s

\* the bytes of the result field as json.RawMessage keeps them
RawResult(raw) ==
    CASE raw = OutOkEnv -> OutResult
      [] OTHER -> ""

\* a body that is no bytes at all
EmptyBody == [k |-> "empty"]

\* publisher.go 92-99: json.Marshal(env); a json.RawMessage that is not
\* JSON makes it fail, the error is dropped and body is nil
inventoryEnvelope(agentID, ts, invJSON) ==
    IF ParseJSON(invJSON).err THEN EmptyBody
    ELSE [k |-> "envelope", agentId |-> agentID, ts |-> ts,
          inventory |-> Compact(invJSON)]

\* publisher.go 92-115: the publication that is given to publishWithRetry
PublishInventoryJSON(agentID, ts, invJSON) ==
    [op |-> "publish", exchange |-> TelemetryEx, key |-> "inventory." \o agentID,
     mandatory |-> TRUE, immediate |-> FALSE, contentType |-> "application/json",
     deliveryMode |-> "persistent", headers |-> <<>>,
     body |-> inventoryEnvelope(agentID, ts, invJSON)]

\* publisher.go 139-146
inventoryEnvelopeMeta(opts, ts) ==
    IF ParseJSON(opts.Body).err THEN EmptyBody
    ELSE [k |-> "envelope", agentId |-> opts.AgentID, ts |-> ts,
          source |-> opts.Source, mergeMode |-> opts.MergeMode,
          inventory |-> Compact(opts.Body)]

\* publisher.go 133-171
PublishInventoryJSONWithMeta(opts, ts) ==
    [op |-> "publish", exchange |-> TelemetryEx, key |-> "inventory." \o opts.AgentID,
     mandatory |-> TRUE, immediate |-> FALSE, contentType |-> "application/json",
     deliveryMode |-> "persistent",
     headers |-> [n \in {"x-source", "x-merge-mode"} \cup DOMAIN opts.Headers |->
                    IF n \in DOMAIN opts.Headers THEN opts.Headers[n]
                    ELSE IF n = "x-source" THEN opts.Source ELSE opts.MergeMode],
     body |-> inventoryEnvelopeMeta(opts, ts)]

\* main.go 184-187, telemetry_light.go 29: the script of the round has run
scriptRun(kind, action, host) ==
    LET r == RunActionScript(action, host)
    IN  [kind |-> kind, pc |-> "ran", host |-> host, runs |-> r.runs,
         last |-> r.last, out |-> r.out, err |-> r.err, msgs |-> <<>>]

\* main.go 188-204: what a round of the inventory ticker publishes
inventoryPublish(raw, err, ts) ==
    LET u == unmarshalResp(raw)
    IN  IF ~err.nil THEN <<>>
        ELSE IF ~u.err /\ u.ok
        THEN <<PublishInventoryJSON(AgentID, ts, EncodeJSON(u.result))>>
        ELSE <<PublishInventoryJSON(AgentID, ts, raw)>>

LightOpts(body, mode) ==
    [AgentID |-> AgentID, Body |-> body, Source |-> "inventory.refresh.light",
     MergeMode |-> mode, Headers |-> [n \in {"x-agent-id"} |-> AgentID]]

\* telemetry_light.go 30-61: what the goroutine of KickLightRefresh publishes
lightPublish(raw, err, ts) ==
    LET u == unmarshalResp(raw)
    IN  IF ~err.nil THEN <<>>
        ELSE IF ~u.err /\ u.ok /\ RawResult(raw) /= ""
        THEN <<PublishInventoryJSONWithMeta(
                  LightOpts(RawResult(raw), "patch-nondestructive"), ts)>>
        ELSE <<PublishInventoryJSONWithMeta(LightOpts(raw, "raw"), ts)>>

telFrame == UNCHANGED <<cfg, hand, fsVars, sessVars, now, loopVars, unitVars>>

\* main.go 182-187: the ticker fires and inventory.refresh is run
InventoryTick ==
    /\ tel = NoRun
    /\ \E host \in InventoryHosts :
          tel' = scriptRun("full", "inventory.refresh", host)
    /\ telFrame

\* main.go 188-204
InventoryPublish ==
    /\ tel.kind = "full"
    /\ tel.pc = "ran"
    /\ tel' = [tel EXCEPT !.pc = "done", !.msgs = inventoryPublish(tel.out, tel.err, now)]
    /\ telFrame

\* telemetry_light.go 17-29: the hook starts the goroutine, which runs
\* inventory.refresh.light
LightRefresh ==
    /\ tel = NoRun
    /\ \E host \in InventoryHosts :
          tel' = scriptRun("light", "inventory.refresh.light", host)
    /\ telFrame

\* telemetry_light.go 30-61
LightPublish ==
    /\ tel.kind = "light"
    /\ tel.pc = "ran"
    /\ tel' = [tel EXCEPT !.pc = "done", !.msgs = lightPublish(tel.out, tel.err, now)]
    /\ telFrame

\* main.go 182, telemetry_light.go 62: the round is over; what it held is
\* local to it
RoundOver ==
    /\ tel.pc = "done"
    /\ tel' = NoRun
    /\ telFrame

\* ----------------------------------------------------------- the datastore

\* the rest of the agent, at rest
Resting ==
    /\ brokerUp = TRUE
    /\ amqpURL = ""
    /\ conn = 0
    /\ ch = 0
    /\ liveConn = {}
    /\ liveCh = {}
    /\ exch = [i \in Ids |-> <<>>]
    /\ now = 0
    /\ pc = "off"
    /\ c = 0
    /\ d = JNull
    /\ t = ZeroTask
    /\ result = JNull
    /\ hErr = Nil
    /\ b = JNull
    /\ lastRun = <<>>
    /\ calls = <<>>
    /\ setup = <<>>
    /\ sup = 0
    /\ pub = PubOff
    /\ mn = MainAt("boot")
    /\ tel = NoRun
    /\ cfg = NoConfig
    /\ hand = NoHandle

\* the tree in which somebody has edited the guard file of Logs
EditedFs == Put(InitialFs, Dirs.Logs \o <<GuardName>>, File("edited"))

\* main.go 132-143: EnsureDataDirs was called at boot, on a file system
\* that folds case or on one that does not, and left the whole tree, or
\* the tree without the guard file of VMS when that file could not be
\* written; the rest of the agent is at rest
FsInit ==
    /\ foldCase \in BOOLEAN
    /\ fs \in {EditedFs, Without(EditedFs, Dirs.VMS \o <<GuardName>>)}
    /\ nops = 0
    /\ last = NoOp
    /\ ops = NoCalls
    /\ Resting

FsNext ==
    \/ CallMkdirAll
    \/ CallCreateFile
    \/ CallWriteFile
    \/ CallRename
    \/ CallCopyFile
    \/ CallMoveToTrash
    \/ CallEnsureDataDirs

FsSpec == FsInit /\ [][FsNext]_vars

\* ---- uniquePath by itself, on directories with many numbered names

\* the paths uniquePath is asked for: a disk image, names without an
\* extension, with two dots and with a leading dot, one that is not there
Vm1 == Dirs.VMS \o <<"vm1">>
Image == Vm1 \o <<"disk.vhdx">>
UniqueTargets ==
    {Image, Vm1 \o <<"disk">>, Vm1 \o <<"vm.tar.gz">>, Vm1 \o <<".cfg">>,
     Vm1 \o <<"new.vhdx">>}

\* f with an empty file at p, at each candidate of p that has a number of
\* S, and at the paths of more
Crowded(f, p, S, more) ==
    [q \in DOMAIN f \cup {Key(p)} \cup {Key(Numbered(p, i)) : i \in S}
           \cup {Key(x) : x \in more} |->
        IF q \in DOMAIN f THEN f[q] ELSE File("")]

\* the directories: the image alone, with candidates 1 and 2, with candidate
\* 2 only, other names with their candidate 1, every candidate of the image
\* but 9999, every candidate, and every candidate and the name that has the
\* timestamp of clock value 0
UniqueTrees ==
    {InitialFs,
     Crowded(InitialFs, Image, {}, {}),
     Crowded(InitialFs, Image, {1, 2}, {}),
     Crowded(InitialFs, Image, {2}, {}),
     Crowded(InitialFs, Vm1 \o <<".cfg">>, {1},
             {Vm1 \o <<"vm.tar.gz">>, Vm1 \o <<"vm.tar (1).gz">>}),
     Crowded(InitialFs, Image, 1..(UniqueMax - 1), {}),
     Crowded(InitialFs, Image, 1..UniqueMax, {}),
     Crowded(InitialFs, Image, 1..UniqueMax, {Stamped(Image, StampMs(0))})}

UniqueInit ==
    /\ foldCase \in BOOLEAN
    /\ fs \in UniqueTrees
    /\ nops = 0
    /\ last = NoOp
    /\ ops = NoCalls
    /\ Resting

\* datadirs.go 167-199: a call of uniquePath, made at some time
CallUniquePath ==
    /\ nops < MaxOps
    /\ nops' = nops + 1
    /\ \E x \in UniqueTargets, n \in {0, 1} :
         LET u == uniquePath(fs, x, StampMs(n))
         IN  last' = [op |-> "uniquePath", targets |-> {x}, err |-> u.err,
                      changed |-> FALSE, path |-> u.path, data |-> StampMs(n)]
    /\ UNCHANGED <<foldCase, fs, ops, sessVars, now, loopVars, unitVars, hostVars>>

UniqueNext == CallUniquePath

UniqueSpec == UniqueInit /\ [][UniqueNext]_vars

\* ---- the structured path helpers

\* filepath.Join of path base with elements: empty elements are dropped
\* (the result is cleaned by canonicalize, which every helper applies next)
Join(base, elems) == base \o SelectSeq(elems, LAMBDA x : x /= "")

\* the path that is the empty string
EmptyPath == <<"">>

\* a helper returns a path or an error
Helped(canon) == [err |-> Nil, path |-> canon]
NotHelped(msg) == [err |-> Err(msg), path |-> <<>>]

\* datadirs.go 357-367
JoinVMDir(dd, elems) ==
    LET path == Join(dd.VMS, elems)
        canon == canonicalize(path)
    IN  IF ~isUnder(canon, dd.Root) THEN NotHelped("vm dir escapes root")
        ELSE Helped(canon)

\* datadirs.go 370-384
JoinTenantVMDir(dd, tenantId, elems) ==
    LET p == Join(dd.VMS, <<tenantId>> \o elems)
        canon == canonicalize(p)
    IN  IF tenantId = "" THEN NotHelped("empty tenantId")
        ELSE IF ~isUnder(canon, dd.VMS) THEN NotHelped("vm dir escapes VMS")
        ELSE Helped(canon)

\* datadirs.go 387-397
JoinImagesPath(dd, elems) ==
    LET p == Join(dd.Images, elems)
        canon == canonicalize(p)
    IN  IF ~isUnder(canon, dd.Images) THEN NotHelped("image path escapes Images")
        ELSE Helped(canon)

\* datadirs.go 400-409, 75-78: returns the error alone; the model keeps the
\* canonical path with it
AssertReadableImage(imgPath, dd) ==
    LET canon == canonicalize(imgPath)
    IN  IF imgPath = EmptyPath THEN NotHelped("empty path")
        ELSE IF ~isUnder(canon, dd.Images) THEN NotHelped("image not under Images")
        ELSE Helped(canon)

\* the elements the helpers are called with, and the sequences of them
Elems == {"", ".", "..", "vm1", "Images", "vms"}
ElemSeqs(n) == UNION {[1..k -> Elems] : k \in 0..n}
MaxElems == 3
\* the paths assertReadableImage is asked about
ImagePaths ==
    {EmptyPath} \cup
    {base \o e : base \in {<<>>, Dirs.Root, Dirs.Images}, e \in ElemSeqs(MaxElems - 1)}

\* a helper was called with what makes path joined, and returned r
Helper(op, joined, r) ==
    /\ nops = 0
    /\ nops' = 1
    /\ last' = [op |-> op, targets |-> {joined}, err |-> r.err, changed |-> FALSE,
                path |-> r.path, data |-> ""]
    /\ UNCHANGED <<foldCase, fs, ops, sessVars, now, loopVars, unitVars, hostVars>>

CallJoinVMDir ==
    \E e \in ElemSeqs(MaxElems) : Helper("joinVMDir", Dirs.VMS \o e, JoinVMDir(Dirs, e))

CallJoinTenantVMDir ==
    \E tenantId \in Elems, e \in ElemSeqs(MaxElems - 1) :
       Helper("joinTenantVMDir", Dirs.VMS \o <<tenantId>> \o e,
              JoinTenantVMDir(Dirs, tenantId, e))

CallJoinImagesPath ==
    \E e \in ElemSeqs(MaxElems) :
       Helper("joinImagesPath", Dirs.Images \o e, JoinImagesPath(Dirs, e))

CallAssertReadableImage ==
    \E x \in ImagePaths : Helper("assertReadableImage", x, AssertReadableImage(x, Dirs))

HelperInit ==
    /\ foldCase \in BOOLEAN
    /\ fs = InitialFs
    /\ nops = 0
    /\ last = NoOp
    /\ ops = NoCalls
    /\ Resting

HelperNext ==
    \/ CallJoinVMDir
    \/ CallJoinTenantVMDir
    \/ CallJoinImagesPath
    \/ CallAssertReadableImage

HelperSpec == HelperInit /\ [][HelperNext]_vars

MergeNext == HandleMerge \/ HandleOver

MergeInit ==
    /\ foldCase = TRUE
    /\ FsQuiet
    /\ Resting

\* HandleTask by itself, on every task
MergeSpec == MergeInit /\ [][MergeNext]_vars

\* the callers of the datastore at work together, none has begun
RaceInit ==
    /\ foldCase \in BOOLEAN
    /\ fs = RaceFs
    /\ nops = 0
    /\ last = NoOp
    /\ ops = NoCalls
    /\ Resting

RaceNext ==
    \E i \in Callers :
       \/ RaceBegin(i)
       \/ RaceProbe(i)
       \/ RacePlace(i)
       \/ RaceStream(i)

RaceSpec == RaceInit /\ [][RaceNext]_vars

\* ------------------------------------------------ the telemetry goroutines

TelemetryInit ==
    /\ foldCase = TRUE
    /\ FsQuiet
    /\ Resting

TelemetryNext ==
    \/ InventoryTick
    \/ InventoryPublish
    \/ LightRefresh
    \/ LightPublish
    \/ RoundOver

TelemetrySpec == TelemetryInit /\ [][TelemetryNext]_vars

\* -------------------------------------------------------- main at its start

ConfigNext ==
    \/ LoadConfig
    \/ StartTickers

ConfigSpec == TelemetryInit /\ [][ConfigNext]_vars

\* ------------------------------------------------------------------ claims

\* The claims speak of the delivery in d as the control plane sent it.
BodyField(key) ==
    IF d.k = "obj" /\ key \in DOMAIN d.m /\ d.m[key].k = "str" THEN d.m[key].s ELSE ""

\* the delivery decodes to a Task
IsTask == d \in TaskBodies
\* ... addressed to this agent
ForThisAgent == IsTask /\ BodyField("agentId") \in {"", AgentID}
\* ... addressed to another agent
ForOtherAgent == IsTask /\ BodyField("agentId") \notin {"", AgentID}

CallsOf(kinds) == SelectSeq(calls, LAMBDA x : x.op \in kinds)
Settles == CallsOf({"ack", "nack"})
Pubs == CallsOf({"publish"})
ResultPubs == SelectSeq(Pubs, LAMBDA x : x.exchange = ResultsEx)
ReplyPubs == SelectSeq(Pubs, LAMBDA x : x.exchange = "")
InSeq(q) == {q[i] : i \in DOMAIN q}

\* the loop has processed the delivery in d completely
Processed == pc = "next" /\ d /= JNull
\* the handler has returned for the delivery in d
AfterHandler == pc \in {"settle", "publish", "replydecl", "replypub", "hook", "next"}
\* the acknowledgement of the handled delivery has been issued
AfterSettle == pc \in {"publish", "replydecl", "replypub", "hook", "next"}
\* the result publication of the handled delivery has returned
AfterPublish == pc \in {"replydecl", "replypub", "hook", "next"}
\* the reply publication, if any, has returned
AfterReply == pc \in {"hook", "next"}

\* C1: when the loop has processed a delivery that decodes to a task addressed
\* to this agent, exactly one result envelope carrying its taskId has reached
\* exchange results with routing key task.<taskId>: not zero, not two.
C1_ExactlyOneResultPublished ==
    (Processed /\ ForThisAgent) =>
        Cardinality({i \in DOMAIN calls :
                        /\ calls[i].op = "publish"
                        /\ calls[i].sent
                        /\ calls[i].exchange = ResultsEx
                        /\ calls[i].key = "task." \o BodyField("taskId")
                        /\ calls[i].body.taskId = BodyField("taskId")}) = 1

\* C2: a delivery that reached the handler is settled by exactly one call, an
\* Ack iff the handler returned no error and a Nack(requeue=false) otherwise;
\* no Ack or Nack the loop issues ever asks for a requeue.
C2_AckIffHandlerOk ==
    /\ \A s \in InSeq(Settles) : ~s.requeue
    /\ (ForThisAgent /\ AfterSettle) =>
          /\ Len(Settles) = 1
          /\ (Settles[1].op = "ack") <=> hErr.nil
          /\ (Settles[1].op = "nack") <=> ~hErr.nil

C2_Witness ==
    /\ Processed /\ ForThisAgent /\ ~hErr.nil
    /\ Len(Settles) = 1 /\ Settles[1].op = "nack"

\* C3: a delivery whose body does not decode as a Task is settled by one
\* Nack(requeue=false) and nothing else is done for it (no script process, no
\* publish, no queue declaration, no hook); the loop is then at the point
\* where it takes the next delivery.
C3_PoisonDropped ==
    d \in PoisonBodies =>
        /\ Len(calls) = 1
        /\ calls[1].op = "nack" /\ ~calls[1].requeue /\ ~calls[1].multiple
        /\ result = JNull /\ b = JNull
        /\ pc = "next"
        /\ ENABLED (Receive \/ Closed)

C3_Witness == d = JStr("not json") /\ pc = "next" /\ Len(calls) = 1

\* C4: a decoded task that names another agent is acknowledged and nothing
\* else is done for it; a task with an empty agentId goes through the handler
\* and gets its result published like one that names this agent.
C4_MisroutedAcked ==
    /\ ForOtherAgent =>
          /\ Len(calls) = 1
          /\ calls[1].op = "ack"
          /\ result = JNull /\ b = JNull
          /\ pc = "next"
    /\ (IsTask /\ BodyField("agentId") = "") =>
          /\ pc /= "next" \/ (Len(ResultPubs) = 1 /\ Len(CallsOf({"hook"})) = 1)
          /\ AfterSettle => Len(Settles) = 1

C4_Witness ==
    /\ IsTask /\ BodyField("agentId") = "HOST-B" /\ BodyField("replyTo") /= ""
    /\ pc = "next" /\ Len(calls) = 1

\* C5: every publication made for a task, to results or to the reply queue,
\* carries the task's correlationId when that is not empty and its taskId
\* otherwise.
C5_CorrelationId ==
    \A p \in InSeq(Pubs) :
        p.corr = IF BodyField("correlationId") /= ""
                 THEN BodyField("correlationId")
                 ELSE BodyField("taskId")

C5_Witness ==
    /\ Processed /\ BodyField("correlationId") = ""
    /\ Len(ResultPubs) = 1 /\ Len(ReplyPubs) = 1
    /\ ReplyPubs[1].corr = "T1"

\* C6: when the handler returned an error, whatever the exit code, stdout and
\* stderr of the script, the result envelope has ok = false and an error
\* string that is not empty, and the loop has a next step to take.
C6_FailureEnvelope ==
    (ForThisAgent /\ AfterHandler /\ ~hErr.nil) =>
        /\ \A p \in InSeq(Pubs) : ~p.body.ok /\ p.body.error /= ""
        /\ AfterPublish => (Len(ResultPubs) = 1 /\ ~b.ok /\ b.error /= "")
        /\ ENABLED consumeLoop

C6_Witness ==
    /\ Processed /\ ForThisAgent /\ ~hErr.nil
    /\ lastRun /= <<>> /\ lastRun[1].out = OutBlankErr
    /\ Len(ResultPubs) = 1 /\ ResultPubs[1].body.error = "action script failed"

\* C7: every published result envelope with ok = true has an empty error
\* field.
C7_OkMeansNoError ==
    \A p \in InSeq(Pubs) : p.body.ok => p.body.error = ""

\* the result the claim expects for a stdout text
IsSuccessEnvelope(v) ==
    /\ v.k = "obj"
    /\ "ok" \in DOMAIN v.m /\ v.m["ok"] = JBool(TRUE)
    /\ "result" \in DOMAIN v.m
ExpectedResult(out, ok) ==
    LET p == ParseJSON(out)
    IN  IF p.err THEN JObj([ok |-> JBool(ok), raw |-> JStr(out)])
        ELSE IF IsSuccessEnvelope(p.v) THEN p.v.m["result"]
        ELSE p.v

\* C8: the result field of the published envelope is R when the script's
\* stdout is the success envelope {ok:true, result:R}, the parsed stdout when
\* it is any other JSON, and {ok, raw:<stdout>} when it is not JSON.
C8_ResultUnwrapped ==
    (ForThisAgent /\ lastRun /= <<>>) =>
        \A p \in InSeq(Pubs) :
            p.body.result = ExpectedResult(lastRun[1].out, p.body.ok)

\* C9: when the script exited non-zero with an empty stdout, the published
\* envelope has ok = false, result {ok:false, raw:""} and the trimmed stderr of
\* the script as its error.
C9_CrashError ==
    (ForThisAgent /\ lastRun /= <<>> /\ lastRun[1].exit /= 0 /\ lastRun[1].out = "") =>
        \A p \in InSeq(Pubs) :
            /\ ~p.body.ok
            /\ p.body.result = JObj([ok |-> JBool(FALSE), raw |-> JStr("")])
            /\ p.body.error = TrimSpace(lastRun[1].stderr)

\* C10: the loop publishes a reply iff the task's replyTo is not empty; the
\* reply goes to the default exchange with routing key replyTo, after a
\* durable declaration of that queue, with the same body and the same
\* correlationId as the publication to results.  (A publication is the
\* Publish call the loop makes.)
C10_ReplyPublication ==
    /\ ReplyPubs /= <<>> => (ForThisAgent /\ BodyField("replyTo") /= "")
    /\ (ForThisAgent /\ AfterReply) =>
          (Len(ReplyPubs) = IF BodyField("replyTo") /= "" THEN 1 ELSE 0)
    /\ \A i \in DOMAIN calls :
          (calls[i].op = "publish" /\ calls[i].exchange /= ResultsEx) =>
              /\ calls[i].exchange = ""
              /\ calls[i].key = BodyField("replyTo")
              /\ \E j \in 1..(i - 1) :
                    /\ calls[j].op = "qdeclare"
                    /\ calls[j].name = BodyField("replyTo")
                    /\ calls[j].durable
              /\ \E j \in 1..(i - 1) :
                    /\ calls[j].op = "publish"
                    /\ calls[j].exchange = ResultsEx
                    /\ calls[j].body = calls[i].body
                    /\ calls[j].corr = calls[i].corr

C10_Witness ==
    /\ Processed /\ Len(ReplyPubs) = 1 /\ Len(ResultPubs) = 1
    /\ ReplyPubs[1].key = "reply.T1"
    /\ now > ReplyPubs[1].body.finishedAt

\* the script processes started for the delivery in d
Runs == CallsOf({"run"})

\* C11: the hook of a handled task is launched only after the publication of
\* its result to exchange results has returned, and after the publication of
\* its reply when the delivery names a replyTo; no publication of the task is
\* issued once its hook is launched, and the hook is launched at most once.
C11_HookAfterPublications ==
    /\ Len(CallsOf({"hook"})) <= 1
    /\ \A i \in DOMAIN calls :
          calls[i].op = "hook" =>
              /\ ForThisAgent
              /\ calls[i].task.taskId = BodyField("taskId")
              /\ \E j \in 1..(i - 1) :
                    /\ calls[j].op = "publish"
                    /\ calls[j].exchange = ResultsEx
                    /\ calls[j].body.taskId = BodyField("taskId")
              /\ BodyField("replyTo") /= "" =>
                    \E j \in 1..(i - 1) :
                       /\ calls[j].op = "publish"
                       /\ calls[j].exchange = ""
                       /\ calls[j].key = BodyField("replyTo")
              /\ \A j \in (i + 1)..Len(calls) : calls[j].op /= "publish"

C11_Witness ==
    /\ Processed /\ ForThisAgent /\ BodyField("replyTo") /= ""
    /\ Len(calls) >= 3
    /\ calls[Len(calls)].op = "hook"
    /\ calls[Len(calls) - 1].op = "publish"
    /\ calls[Len(calls) - 1].exchange = ""

\* C12 as the specification states it: at most one script process is started
\* for a delivered job, and none for a poison or misrouted delivery.
C12_AtMostOneRun ==
    /\ Len(Runs) <= 1
    /\ (d \in PoisonBodies \/ ForOtherAgent) => Len(Runs) = 0

\* C12, amended: at most two script processes are started for a delivered
\* job, and none for a poison or misrouted delivery; a second one is started
\* only without the inline argument, after a first one that was given the
\* inline argument failed with a stderr that reports the parameter unknown.
C12_AtMostTwoRuns ==
    /\ Len(Runs) <= 2
    /\ (d \in PoisonBodies \/ ForOtherAgent) => Len(Runs) = 0
    /\ Len(Runs) >= 1 => Runs[1].inline
    /\ Len(Runs) = 2 =>
          /\ ~Runs[2].inline
          /\ Runs[1].failed
          /\ Runs[1].stderr = UnknownParamMsg

C12_Witness ==
    /\ Processed /\ ForThisAgent
    /\ Len(Runs) = 2
    /\ ~Runs[2].failed

\* ---------------------------------------------------- claims on the session

\* a connection-class error: the closed-channel error or a broker exception
ConnectionClass(e) == e \in {ErrClosed, ErrForced}

\* the calls of fn in the publisher's current iteration
PubFn == SelectSeq(pub.log, LAMBDA x : x.op = "fn")

\* the publisher is inside publishWithRetry
Publishing == pub.pc \in {"ensure", "send", "reset"}

\* what is left of publishWithRetry: it decreases with every step of it
PubRank ==
    CASE pub.pc = "ensure" -> 3 * (3 - pub.i) + 3
      [] pub.pc = "send"   -> 3 * (3 - pub.i) + 2
      [] pub.pc = "reset"  -> 3 * (3 - pub.i) + 1
      [] OTHER -> 0

C13_State ==
    /\ pub.n <= 3
    /\ PubRank >= 0
    /\ Publishing => ~pub.sent
    /\ pub.pc = "ret" => (pub.ret.nil <=> pub.sent)
    /\ pub.sent => /\ Len(PubFn) = 1
                   /\ PubFn[1].err.nil
                   /\ pub.log[Len(pub.log)].op = "fn"
    /\ \A k \in DOMAIN pub.log :
          (pub.log[k].op = "fn" /\ ~pub.log[k].err.nil) =>
              IF ConnectionClass(pub.log[k].err)
              THEN \/ pub.pc = "reset" /\ k = Len(pub.log)
                   \/ /\ pub.pc \in {"ensure", "ret"}
                      /\ Len(pub.log) = k + 2
                      /\ pub.log[k + 1].op = "reset"
                      /\ pub.log[k + 2].op = "sleep"
                      /\ pub.pc = "ret" => (pub.n = 3 /\ pub.ret = pub.log[k].err)
              ELSE /\ pub.pc = "ret"
                   /\ pub.ret = pub.log[k].err
                   /\ k = Len(pub.log)

C13_Step ==
    /\ (Publishing /\ pub' /= pub /\ pub'.pc /= "off") => PubRank' < PubRank
    /\ (pub.pc = "reset" /\ pub'.pc = "ensure") =>
          /\ conn' = 0 /\ ch' = 0
          /\ conn \notin liveConn' /\ ch \notin liveCh'
    /\ (pub.pc = "send" /\ pub'.pc = "ret") =>
          UNCHANGED <<conn, ch, liveConn, liveCh>>

\* C13: publishWithRetry makes at most 3 attempts and every step of it brings
\* it nearer to its return; it returns nil iff the publish of one attempt
\* succeeded; after a connection-class error of the publish it resets the
\* session and sleeps before the next attempt; any other error of the publish
\* is returned at once and unchanged, with no reset and no further attempt.
C13_PublishWithRetry == []C13_State /\ [][C13_Step]_vars

C13_Witness ==
    /\ pub.pc = "ret" /\ pub.n = 3 /\ pub.ret.nil /\ pub.sent
    /\ pub.lastErr = ErrClosed

\* C14: at most one connection and one channel of the agent are open, and an
\* open one is the one stored in the session.
C14_OnePairLive ==
    /\ Cardinality(liveConn) <= 1
    /\ Cardinality(liveCh) <= 1
    /\ liveConn \subseteq {conn}
    /\ liveCh \subseteq {ch}

\* the three exchanges, declared as the specification says
DeclaredAsSpecified(q) ==
    /\ Len(q) = 3
    /\ q[1].name = "jobs" /\ q[1].kind = "direct"
    /\ q[2].name = "agent.telemetry" /\ q[2].kind = "topic"
    /\ q[3].name = "results" /\ q[3].kind = "topic"
    /\ \A k \in 1..3 : q[k].durable /\ ~q[k].autoDelete /\ ~q[k].internal

\* C15: the channel stored in the session, and every channel a publisher or
\* the consume loop holds, is one on which the three exchanges were declared
\* with success, with the same parameters at every reconnection.
C15_ExchangesDeclared ==
    \A id \in {ch, c, pub.c} \ {0} : DeclaredAsSpecified(exch[id])

C15_Witness ==
    /\ pc = "recv" /\ c = 2 /\ ch = 2 /\ conn = 2
    /\ 2 \in liveCh
    /\ pub.pc = "send" /\ pub.c = 2
    /\ DeclaredAsSpecified(exch[2])

\* C16: a refused exchange declaration is returned as an error to the caller
\* of the sequence that met it (init, the start of the consumer, a publish
\* or the supervision of the consume loop) after the 3 tries of a bounded
\* sequence at most: no unit tries a fourth time in a row.
C16_DeclareFailureSurfaced ==
    /\ sup <= 3
    /\ (mn.pc \in {"initFatal", "startFatal"} /\ isDeclareError(mn.lastErr)) =>
          ~mn.ret.nil
    /\ (pub.pc = "ret" /\ ~pub.sent /\ isDeclareError(pub.lastErr)) =>
          pub.ret = pub.lastErr

\* InitPublisher has returned nil, and main has not gone on yet
InitReturnedNil ==
    mn.pc = "init" /\ mn.log /= <<>> /\ mn.log[Len(mn.log)] = "ok"

C17_State ==
    /\ mn.pc \in {"init", "initFatal"} => Len(mn.log) <= 3
    /\ InitReturnedNil =>
          /\ mn.ret.nil
          /\ conn /= 0 /\ ch /= 0
          /\ DeclaredAsSpecified(exch[ch])
          /\ \A k \in 1..(Len(mn.log) - 1) : mn.log[k] /= "ok"
    /\ mn.pc = "initFatal" =>
          /\ Len(mn.log) = 3
          /\ \A k \in 1..3 : mn.log[k] /= "ok"
          /\ ~mn.ret.nil /\ ~mn.lastErr.nil
          /\ mn.ret.cause = mn.lastErr
          /\ mn.ret.msg = "amqp channel init failed after 3 attempts: "
                             \o mn.lastErr.msg
          /\ conn = 0 /\ ch = 0
          /\ liveConn = {} /\ liveCh = {}

C17_Step ==
    (mn.pc = "init" /\ Len(mn'.log) > Len(mn.log)) =>
        IF mn'.log[Len(mn'.log)] = "ok"
        THEN /\ conn' /= 0 /\ conn' \in liveConn'
             /\ ch' /= 0 /\ ch' \in liveCh'
             /\ DeclaredAsSpecified(exch'[ch'])
        ELSE /\ conn' = 0 /\ ch' = 0
             /\ liveConn' = {} /\ liveCh' = {}
             /\ ~mn'.lastErr.nil

\* C17: InitPublisher makes at most 3 tries, each of which ends; it returns
\* nil iff one try completed dial, channel open and the declarations, and
\* the session is then Ready; otherwise it returns an error that wraps the
\* last failure, and no connection and no channel is stored or open.
C17_InitPublisher == []C17_State /\ [][C17_Step]_vars

C17_Witness ==
    /\ InitReturnedNil
    /\ mn.log = <<"dial", "declare2", "ok">>
    /\ conn \in liveConn

\* C19: once ClosePublisher has returned, the session stays closed: no
\* connection and no channel is stored or open, and the consume loop is not
\* setting up a consumer.
C19_StaysClosed ==
    mn.pc = "closed" =>
        /\ conn = 0 /\ ch = 0
        /\ liveConn = {} /\ liveCh = {}
        /\ pc \notin {"qdeclare", "qbind", "qos", "consume"}

\* the loop has a consumer on an open channel
Consuming ==
    /\ pc \in {"recv", "handle", "settle", "publish", "replydecl", "replypub",
               "hook", "next"}
    /\ c \in liveCh

\* the result of the processed delivery has reached exchange results
ResultSent ==
    \E k \in DOMAIN calls :
       /\ calls[k].op = "publish"
       /\ calls[k].exchange = ResultsEx
       /\ calls[k].sent

\* C18: under fair scheduling, if the broker fails and from some time on
\* stays reachable, the loop gets back to consuming on an open channel and
\* stays there; every task it takes is handled to the end, and from some
\* time on the result of every task it handles reaches exchange results; the
\* loop never returns.
C18_LoopRecovers ==
    /\ [](pc /= "off")
    /\ (pc = "handle") ~> (pc = "next")
    /\ (<>[]brokerUp) =>
          /\ <>[]Consuming
          /\ <>[]((Processed /\ ForThisAgent) => ResultSent)

C18_Witness ==
    /\ brokerUp /\ Consuming /\ c = 2
    /\ Processed /\ ForThisAgent /\ ResultSent

\* --------------------------------------------------- claims on the datastore

\* the protected directories, as the specification lists them
ProtectedPaths ==
    {<<"data", "openhvx">>} \cup
    {<<"data", "openhvx", n>> :
        n \in {"VMS", "VHD", "Images", "ISOs", "Checkpoints", "Logs", "_trash"}}

\* p is strictly below the managed root
StrictlyBelowRoot(p) ==
    Len(p) > 2 /\ p[1] = "data" /\ p[2] = "openhvx"

\* a path the operations must refuse: a protected directory, or a path that
\* is not strictly below the root
Forbidden(p) == p \in ProtectedPaths \/ ~StrictlyBelowRoot(p)

\* C20: an operation called with a protected directory, or with a path that
\* is not strictly below the root, as a target returns an error and leaves
\* the file system as it was; and every protected directory is a directory
\* at its path after any sequence of operations.
C20_ProtectedDirsStay ==
    /\ (\E x \in last.targets : Forbidden(x)) =>
          (~last.err.nil /\ ~last.changed)
    /\ \A p \in ProtectedPaths : IsDir(fs, p)

\* the entries of file system f that are directly in the directory with key k
EntriesIn(f, k) == {q \in DOMAIN f : q /= <<>> /\ SubSeq(q, 1, Len(q) - 1) = k}

\* C21: a safeWriteFileAtomicUnique that returns path Q found nothing at Q,
\* leaves at Q a file with exactly the data it was given, and leaves every
\* other entry of the directory of Q as it was: none made, changed or
\* removed, so no temporary file stays.
C21_Step ==
    (nops' = nops + 1 /\ last'.op = "safeWriteFileAtomicUnique" /\ last'.err.nil) =>
        LET Q == Key(last'.path)
            dir == SubSeq(Q, 1, Len(Q) - 1)
        IN  /\ Q \notin DOMAIN fs
            /\ Q \in DOMAIN fs'
            /\ fs'[Q] = [kind |-> "file", data |-> last'.data]
            /\ EntriesIn(fs', dir) \ {Q} = EntriesIn(fs, dir)
            /\ \A q \in EntriesIn(fs, dir) : fs'[q] = fs[q]

C21_AtomicUniqueWrite == [][C21_Step]_vars

\* a write to a destination that is taken was given the next free name
C21_Witness ==
    /\ last.op = "safeWriteFileAtomicUnique"
    /\ last.err.nil
    /\ last.targets = {<<"data", "openhvx", "VMS", "vm1", "disk">>}
    /\ last.path = <<"data", "openhvx", "VMS", "vm1", "disk (1)">>
    /\ fs[Key(last.path)].data = "new"
    /\ fs[Key(<<"data", "openhvx", "VMS", "vm1", "disk">>)].data = "image"

\* what the operation of caller i was to place at its destination
OwnData(i) ==
    CASE ops[i].op = "write" -> "data" \o ToString(i)
      [] ops[i].op = "trash" -> "item"
      [] ops[i].op = "create" -> ""
      [] OTHER -> "src" \o ToString(i)

Succeeded(i) == ops[i].pc = "done" /\ ops[i].err.nil

\* C22: when concurrent safe operations that resolve to one destination
\* have all returned, every one that returned success has its own data at
\* the path it returned, and no two of them returned the same path.
C22_NoPlacementLost ==
    (\A i \in DOMAIN ops : ops[i].pc = "done") =>
        /\ \A i \in DOMAIN ops :
              Succeeded(i) =>
                 /\ Key(ops[i].path) \in DOMAIN fs
                 /\ fs[Key(ops[i].path)] = [kind |-> "file", data |-> OwnData(i)]
        /\ \A i, j \in DOMAIN ops :
              (i /= j /\ Succeeded(i) /\ Succeeded(j)) => ops[i].path /= ops[j].path

\* a moveToTrash has just returned success
Trashed == nops' = nops + 1 /\ last'.op = "moveToTrash" /\ last'.err.nil

\* the path it was called with
TrashedPath == CHOOSE x \in last'.targets : TRUE

\* where the claim puts it: _trash/<UTC timestamp>/<its path relative to Root>
TrashPlace(p) ==
    <<"data", "openhvx", "_trash", "19700101-00000" \o ToString(now)>>
       \o SubSeq(p, 3, Len(p))

\* path q is path p with " (i)" after its last name
NumberedFrom(q, p) ==
    /\ Len(q) = Len(p)
    /\ SubSeq(q, 1, Len(q) - 1) = SubSeq(p, 1, Len(p) - 1)
    /\ \E i \in 1..MaxOps : q[Len(q)] = p[Len(p)] \o " (" \o ToString(i) \o ")"

\* what was at or below path p is at or below path q, and everything else
\* is where it was, each with the content it had
MovedOnly(p, q) ==
    LET kp == Key(p)
        kq == Key(q)
        below(x) == Len(x) >= Len(kp) /\ SubSeq(x, 1, Len(kp)) = kp
        to(x) == kq \o SubSeq(x, Len(kp) + 1, Len(x))
    IN  \A x \in DOMAIN fs :
           IF below(x) THEN to(x) \in DOMAIN fs' /\ fs'[to(x)] = fs[x]
           ELSE x \in DOMAIN fs' /\ fs'[x] = fs[x]

\* C23 as stated: after a moveToTrash(P) that succeeds P is no longer at
\* its place, the returned path is _trash/<timestamp>/<P relative to Root>,
\* with the last name of P, and something is there; whatever existed before
\* still exists with its content.
C23_Step_SameLeaf ==
    Trashed =>
        /\ Key(TrashedPath) \notin DOMAIN fs'
        /\ last'.path = TrashPlace(TrashedPath)
        /\ Key(last'.path) \in DOMAIN fs'
        /\ MovedOnly(TrashedPath, last'.path)

C23_Step ==
    Trashed =>
        /\ Key(TrashedPath) \notin DOMAIN fs'
        /\ \/ last'.path = TrashPlace(TrashedPath)
           \/ /\ NumberedFrom(last'.path, TrashPlace(TrashedPath))
              /\ Key(TrashPlace(TrashedPath)) \in DOMAIN fs'
        /\ Key(last'.path) \notin DOMAIN fs
        /\ Key(last'.path) \in DOMAIN fs'
        /\ MovedOnly(TrashedPath, last'.path)

EnsuredAgain ==
    /\ nops' = nops + 1
    /\ last'.op = "ensureDataDirs"
    /\ nops = 0 \/ (last.op = "ensureDataDirs" /\ last.err.nil)

GuardKeys ==
    {Key(<<"data", "openhvx", "DO-NOT-DELETE.txt">>)} \cup
    {Key(<<"data", "openhvx", n, "DO-NOT-DELETE.txt">>) :
        n \in {"VMS", "VHD", "Images", "ISOs", "Checkpoints", "Logs", "_trash"}}

\* C24 as stated: a second EnsureDataDirs call returns the same DataDirs
\* and changes nothing on disk.
C24_Step_NothingChanges ==
    EnsuredAgain => (last'.err.nil /\ last'.path = <<"data", "openhvx">> /\ fs' = fs)

C24_SecondCallNoOp == [][C24_Step_NothingChanges]_vars

\* C24, amended: a second EnsureDataDirs call returns the same DataDirs and
\* no error; everything that exists stays as it is, guard files too
\* whatever they hold; what it adds is only a guard file that is missing,
\* so it changes nothing when every guard file is there; and it returns no
\* error when a guard file could not be written.
C24_Step ==
    EnsuredAgain =>
        /\ last'.err.nil
        /\ last'.path = <<"data", "openhvx">>
        /\ \A q \in DOMAIN fs : q \in DOMAIN fs' /\ fs'[q] = fs[q]
        /\ \A q \in DOMAIN fs' \ DOMAIN fs :
              q \in GuardKeys /\ fs'[q].kind = "file"
        /\ GuardKeys \subseteq DOMAIN fs => fs' = fs

C24_EnsureIdempotent == [][C24_Step]_vars

\* a second call has returned no error, has left the edited guard file as it
\* was, and could not write the guard file that is missing
C24_Witness ==
    /\ last.op = "ensureDataDirs"
    /\ nops = 1
    /\ last.err.nil
    /\ ~last.changed
    /\ fs[Key(<<"data", "openhvx", "Logs", "DO-NOT-DELETE.txt">>)].data = "edited"
    /\ Key(<<"data", "openhvx", "VMS", "DO-NOT-DELETE.txt">>) \notin DOMAIN fs

\* path p is below the Images directory
BelowImages(p) ==
    Len(p) > 3 /\ SubSeq(Key(p), 1, 3) = Key(<<"data", "openhvx", "Images">>)

\* C25: no create, write, rename or copy succeeds with a destination below
\* Images, and no file is below Images but its guard file.
C25_ImagesReadOnly ==
    /\ (last.op \in {"safeCreateFile", "safeWriteFileAtomicUnique",
                     "safeRenameNoOverwrite", "safeCopyFileNoOverwrite"}
          /\ BelowImages(last.path))
         => ~last.err.nil
    /\ \A q \in DOMAIN fs :
          (BelowImages(q) /\ fs[q].kind = "file") => q = Key(<<"data", "openhvx", "Images", "DO-NOT-DELETE.txt">>)

\* ------------------------------------------------------- claims on telemetry

\* a round of kind k has published what it publishes, and its script ran
RoundDone(k) == tel.kind = k /\ tel.pc = "done" /\ tel.last /= <<>>

\* what the script wrote to stdout in the round
RoundStdout == tel.last[1].out

\* the inventory that body carries is the JSON text x, up to white space
Carries(body, x) ==
    /\ "inventory" \in DOMAIN body
    /\ \/ body.inventory = x
       \/ /\ x \notin {"", "VM started"}
          /\ body.inventory = IF x = "{ \"state\": \"Off\" }" THEN "{\"state\":\"Off\"}" ELSE x

\* C26: a round of the inventory ticker in which inventory.refresh ran
\* publishes one inventory message; its inventory is R when stdout is
\* {ok:true, result:R}, and the raw stdout in every other case, the script
\* exiting non-zero or not.
C26_InventoryTick ==
    RoundDone("full") =>
        /\ Len(tel.msgs) = 1
        /\ tel.msgs[1].key = "inventory.HOST-A"
        /\ IF RoundStdout = "{\"ok\":true,\"result\":{\"state\":\"Running\"}}"
           THEN Carries(tel.msgs[1].body, "{\"state\":\"Running\"}")
           ELSE RoundStdout /= "{\"ok\":true}" =>
                   Carries(tel.msgs[1].body, RoundStdout)

\* C27: a run of the light refresh in which the script ran publishes one
\* inventory message with header x-agent-id and source
\* inventory.refresh.light: with mergeMode patch-nondestructive and body R
\* when stdout is {ok:true, result:R} with R not empty; with mergeMode raw
\* and the raw stdout as body otherwise, a failed invocation included.
C27_LightRefresh ==
    RoundDone("light") =>
        /\ Len(tel.msgs) = 1
        /\ tel.msgs[1].headers["x-agent-id"] = "HOST-A"
        /\ "source" \in DOMAIN tel.msgs[1].body
        /\ tel.msgs[1].body.source = "inventory.refresh.light"
        /\ IF RoundStdout = "{\"ok\":true,\"result\":{\"state\":\"Running\"}}"
           THEN /\ tel.msgs[1].body.mergeMode = "patch-nondestructive"
                /\ Carries(tel.msgs[1].body, "{\"state\":\"Running\"}")
           ELSE /\ tel.msgs[1].body.mergeMode = "raw"
                /\ Carries(tel.msgs[1].body, RoundStdout)

\* ------------------------------------------------- claims on configuration

\* the 64-bit value x is zero or negative; it is the small number n
AtMostZero(x) == x[8] >= 128 \/ \A k \in 1..8 : x[k] = 0
Small(n) == [k \in 1..8 |-> IF k = 1 THEN n ELSE 0]

\* C28: for every configuration that Load returns, the heartbeat interval
\* is 30 when the file has 0 or less and what the file has otherwise, the
\* inventory interval 60 likewise, the capabilities inventory and vm.power
\* when the file has none; and the periods of both tickers are positive.
C28_LoadDefaults ==
    cfg.pc \in {"loaded", "ticking", "panic"} =>
        /\ cfg.cfg.HeartbeatIntervalSec =
              IF AtMostZero(cfg.file.hb) THEN Small(30) ELSE cfg.file.hb
        /\ cfg.cfg.InventoryIntervalSec =
              IF AtMostZero(cfg.file.inv) THEN Small(60) ELSE cfg.file.inv
        /\ cfg.cfg.Capabilities =
              IF ~cfg.file.hasCaps \/ cfg.file.caps = <<>>
              THEN <<"inventory", "vm.power">> ELSE cfg.file.caps
        /\ cfg.pc /= "loaded" =>
              (~AtMostZero(cfg.hbEvery) /\ ~AtMostZero(cfg.invEvery))

\* ------------------------------------------------- claims on consumer setup

\* the positions of the loop at which it has deliveries to read
Reading == pc \in {"recv", "next", "handle", "settle", "publish", "replydecl",
                   "replypub", "hook"}

\* the calls made on channel x since the loop last asked for the session are
\* the declaration of the agent's queue, its binding, the prefetch and the
\* registration, in this order and all of them answered without error
SetUpOn(x) ==
    /\ Len(setup) = 4
    /\ \A k \in 1..4 : setup[k].ch = x /\ setup[k].ok
    /\ setup[1].op = "QueueDeclare"
    /\ setup[1].name = "agent." \o AgentID \o ".tasks"
    /\ setup[1].durable /\ ~setup[1].exclusive
    /\ setup[2].op = "QueueBind"
    /\ setup[2].name = setup[1].name
    /\ setup[2].exchange = "jobs" /\ setup[2].key = AgentID
    /\ setup[3].op = "Qos" /\ setup[3].prefetchCount = 5
    /\ setup[4].op = "Consume" /\ setup[4].queue = setup[1].name

\* a step in which one of the four calls is made and fails
SetupFails == Len(setup') = Len(setup) + 1 /\ ~setup'[Len(setup')].ok

C29_Step ==
    SetupFails =>
        /\ pc' = "ensure"
        /\ conn' = 0 /\ ch' = 0
        /\ conn \notin liveConn' /\ ch \notin liveCh'
        /\ UNCHANGED <<d, t, calls>>

\* C29: whenever the consume loop reads deliveries, it has declared the
\* queue agent.<agentId>.tasks durable and non-exclusive, bound it to jobs
\* with routing key <agentId> and applied a prefetch of 5, in this order,
\* on the channel it reads from, since it last ensured the session; and a
\* failing setup call resets the session and sends the loop back to the
\* session ensure with no delivery read.
C29_SetupBeforeReading ==
    /\ [](Reading => SetUpOn(c))
    /\ [][C29_Step]_vars

\* a task is being handled on a channel that is not the loop's first
C29_Witness == pc = "handle" /\ c > 1 /\ SetUpOn(c) /\ sup = 0

\* ------------------------------------------------- claims on the session mutex

\* C30: every operation on the stored connection and channel is made under
\* the session mutex, so operations are serialized: what close() has
\* inspected of the stored pair is still what is stored when it acts on it
\* (no other unit's ensure or reset comes between the test of a reference
\* and the Close call on it).
C30_Serialized ==
    /\ mn.pc = "chClose" => mn.seen = ch
    /\ mn.pc = "connClose" => mn.seen = conn

\* ------------------------------------------------- claims on task ordering

\* everything the loop does for the delivery in d has returned: the handler,
\* one acknowledgement, the publication to results and, when the task names
\* a replyTo, the publication of the reply
AllReturned ==
    /\ Len(Settles) = 1
    /\ ForThisAgent =>
          /\ AfterHandler
          /\ Len(ResultPubs) = 1
          /\ Len(ReplyPubs) = (IF BodyField("replyTo") /= "" THEN 1 ELSE 0)
          /\ \E i, j \in DOMAIN calls :
                /\ i < j
                /\ calls[i].op \in {"ack", "nack"}
                /\ calls[j].op = "publish"

\* a step in which the handler starts for a delivery
HandlerStarts == pc /= "handle" /\ pc' = "handle"

C31_Step ==
    HandlerStarts =>
        /\ pc \in {"recv", "next"}
        /\ (pc = "next" /\ d /= JNull) => AllReturned
        /\ pc = "recv" => (d = JNull /\ calls = <<>>)
        /\ t' = UnmarshalTask(d').t
        /\ calls' = <<>>

C32_ResultBeforeAck ==
    ForThisAgent =>
        \A i \in DOMAIN calls :
            calls[i].op \in {"ack", "nack"} =>
                \E j \in 1..(i - 1) :
                    /\ calls[j].op = "publish"
                    /\ calls[j].exchange = ResultsEx

\* ------------------------------------------------- claims on the action invoker

\* the invoker has returned from the call of the last telemetry round
Invoked == tel.pc \in {"ran", "done"}

\* a run of the script process fails: it exits non-zero, or writes nothing
RunFails(r) == r.exit /= 0 \/ r.out = ""

\* C33: one call of the action invoker runs the script at most twice.  A
\* second run is made without the inline argument, with the payload on
\* stdin, and only after a first run, made with the inline argument, that
\* failed with a stderr reporting the unknown parameter; the caller then
\* gets the stdout and the error of the second run, nothing of the first.
C33_AtMostOneRetry ==
    Invoked =>
        /\ Len(tel.runs) <= 2
        /\ Len(tel.runs) >= 1 => tel.runs[1].inline
        /\ Len(tel.runs) = 2 =>
              /\ ~tel.runs[2].inline /\ tel.runs[2].stdin
              /\ tel.host.r1.exit /= 0
              /\ tel.host.r1.stderr = UnknownParamMsg
              /\ tel.out = tel.host.r2.out
              /\ tel.err.nil <=> ~RunFails(tel.host.r2)
              /\ ~tel.err.nil =>
                    tel.err.msg \in
                        {"action script failed",
                         "action script failed: ",
                         "action script failed: " \o
                             (IF tel.host.r2.stderr = " boom\n" THEN "boom"
                              ELSE tel.host.r2.stderr)}

\* the first run wrote a result and failed on the unknown parameter, the
\* second run succeeded with another result, which is what the caller has
C33_Witness ==
    /\ Invoked
    /\ Len(tel.runs) = 2
    /\ tel.host.r1.out = OutErrEnv
    /\ tel.host.r2.exit = 0
    /\ tel.out = OutOkEnv /\ tel.err.nil

\* ------------------------------------------------- claims on unique names

\* uniquePath has returned for path P
Probed == last.op = "uniquePath"
ProbedPath == CHOOSE x \in last.targets : TRUE
\* something is at path x (names are compared as the file system does)
There(x) == Key(x) \in DOMAIN fs
\* candidate i of path x = dir/name.ext is dir/name (i).ext
Candidate(x, name, ext, i) ==
    SubSeq(x, 1, Len(x) - 1) \o <<name \o " (" \o ToString(i) \o ")" \o ext>>
\* the numbers whose candidate is not there
FreeNumbers(x, name, ext) == {i \in 1..9999 : ~There(Candidate(x, name, ext, i))}

\* what the claim has uniquePath return for x = dir/name.ext
RightName(x, name, ext) ==
    LET free == FreeNumbers(x, name, ext)
        stamped == SubSeq(x, 1, Len(x) - 1) \o <<name \o "-" \o last.data \o ext>>
    IN  IF ~There(x) THEN last.err.nil /\ last.path = x
        ELSE IF free /= {}
        THEN /\ last.err.nil
             /\ \E i \in free : /\ last.path = Candidate(x, name, ext, i)
                                /\ \A j \in free : i <= j
        ELSE IF ~There(stamped) THEN last.err.nil /\ last.path = stamped
        ELSE ~last.err.nil

C34_State ==
    Probed =>
        /\ ProbedPath = Vm1 \o <<"disk.vhdx">> => RightName(ProbedPath, "disk", ".vhdx")
        /\ ProbedPath = Vm1 \o <<"new.vhdx">> => RightName(ProbedPath, "new", ".vhdx")
        /\ ProbedPath = Vm1 \o <<"vm.tar.gz">> => RightName(ProbedPath, "vm.tar", ".gz")
        /\ ProbedPath = Vm1 \o <<"disk">> => RightName(ProbedPath, "disk", "")
        /\ last.err.nil => ~There(last.path)

\* a second call for the same path gives the same answer when the first one
\* did not go as far as the name with the timestamp (which it returns, or
\* finds taken and returns an error)
C34_Step ==
    (Probed /\ Probed' /\ last'.targets = last.targets /\ fs' = fs) =>
        \/ last'.path = last.path /\ last'.err = last.err
        \/ ~last.err.nil
        \/ last.path = Vm1 \o <<"disk-" \o last.data \o ".vhdx">>

SubRootOf(op) ==
    IF op \in {"joinVMDir", "joinTenantVMDir"} THEN Root \o <<"VMS">>
    ELSE Root \o <<"Images">>

\* path q is strictly below path base, for the file system
StrictlyBelow(q, base) ==
    /\ Len(q) > Len(base)
    /\ Key(SubSeq(q, 1, Len(base))) = Key(base)

HelperReturned ==
    last.op \in {"joinVMDir", "joinTenantVMDir", "joinImagesPath", "assertReadableImage"}
\* the path a helper was asked about, as it was put together
Joined == CHOOSE x \in last.targets : TRUE
\* the same path with its empty, "." and ".." elements resolved
Resolved == Clean(SelectSeq(Joined, LAMBDA x : x /= ""))

\* C35: a structured path helper returns a path only when the canonical
\* joined path is strictly below its own sub-root (VMS for joinVMDir and
\* joinTenantVMDir, Images for joinImagesPath and assertReadableImage), and
\* returns an error for segments that resolve to the sub-root itself, to a
\* sibling sub-root or to a place outside Root.
C35_HelpersStayBelow ==
    HelperReturned =>
        /\ last.err.nil =>
              /\ last.path = Resolved
              /\ StrictlyBelow(last.path, SubRootOf(last.op))
        /\ ~StrictlyBelow(Resolved, SubRootOf(last.op)) => ~last.err.nil

\* ------------------------------------------------- claims on failed operations

\* a step in which an operation of the datastore returns an error
OpFails == nops' = nops + 1 /\ last'.op /= "none" /\ ~last'.err.nil

C36_Step == OpFails => fs' = fs

\* C36: an operation of the datastore that returns an error leaves the
\* managed tree as it was: no directory made, no temporary file left,
\* nothing moved.
C36_ErrorChangesNothing == [][C36_Step]_vars

\* ------------------------------------------------- claims on the task context

HandleCalled == hand.pc = "called"
\* the data of the task without a __ctx entry
OwnKeys == DOMAIN hand.task.data \ {"__ctx"}

\* the data mapping x that the script is given holds the task's own entries
\* and, under __ctx, the agent's context with the task's tenant
RightData(x) ==
    /\ DOMAIN x = OwnKeys \cup {"__ctx"}
    /\ \A key \in OwnKeys : x[key] = hand.task.data[key]
    /\ x["__ctx"] = [agentId |-> AgentID, tenantId |-> hand.task.tenantId,
                     basePath |-> BasePath, paths |-> RuntimeCtx.Paths,
                     datastores |-> RuntimeCtx.Datastores]

\* C37: the __ctx the action script is given is the agent's runtime context
\* with the task's tenantId, whatever __ctx the task's data holds (the input
\* is fixed by the action, the tenant and the other entries of the data, so
\* two tasks that differ in the caller's __ctx give the same input); the
\* task's data and the runtime context are as they were before the merge.
C37_OwnContext ==
    HandleCalled =>
        /\ RightData(hand.input.InputJson)
        /\ hand.input.stdin.action = hand.task.action
        /\ RightData(hand.input.stdin.data)
        /\ hand.data = hand.task.data
        /\ hand.rt = RuntimeCtx

\* a task came with a context of another agent in its data
C37_Witness ==
    /\ HandleCalled
    /\ "__ctx" \in DOMAIN hand.task.data
    /\ hand.task.data["__ctx"] \notin {JNull, JStr("mine")}
    /\ hand.task.data["__ctx"].agentId = "HOST-B"
    /\ hand.input.InputJson["__ctx"].agentId = AgentID
    /\ hand.task.tenantId = "t1"

\* ----------------------------------------------- claims on the stale reset

\* the publisher's resetConnection runs
PublisherResets == pub.pc = "reset" /\ pub'.pc = "ensure"

\* C38: the reset that a publisher makes after a connection error closes
\* nothing but the pair on which its publish failed (pub.c): a connection
\* and channel that another unit opened since then stay open.
C38_Step ==
    PublisherResets =>
        /\ liveConn \ liveConn' \subseteq {pub.c}
        /\ liveCh \ liveCh' \subseteq {pub.c}

C38_ResetsItsOwn == [][C38_Step]_vars

\* ------------------------------------------------ claims on the settlement

\* the loop holds a delivery
Taken == d /= JNull
\* the loop takes a delivery from the channel
TakesNext ==
    /\ pc \in {"recv", "next"}
    /\ pc' \in {"handle", "next"}
    /\ d' /= JNull
    /\ (pc' /= pc \/ d' /= d \/ calls' /= calls)

C39_State ==
    /\ Len(Settles) <= 1
    /\ \A s \in InSeq(Settles) : ~s.multiple
    /\ (Taken /\ pc \notin {"handle", "settle"}) => Len(Settles) = 1

C39_Step == (TakesNext /\ Taken) => Len(Settles) = 1

\* C39: for every delivery the loop takes, it issues exactly one settling
\* call, an Ack or a Nack for that delivery alone, never two and never none,
\* and it has issued it when it takes the next delivery.
C39_SettledOnce == [](C39_State) /\ [][C39_Step]_vars

\* a delivery was acknowledged on an open channel and the loop can take the
\* next one
C39_Witness ==
    /\ Processed /\ IsTask
    /\ Len(Settles) = 1 /\ Settles[1].op = "ack" /\ Settles[1].sent
    /\ c \in liveCh
    /\ now > 0

\* ------------------------------------------- claims on the inventory bodies

\* body is a JSON envelope with agentId, ts and inventory
IsEnvelope(body) ==
    /\ body /= EmptyBody
    /\ {"agentId", "ts", "inventory"} \subseteq DOMAIN body
    /\ body.agentId = AgentID
    /\ ~ParseJSON(body.inventory).err

\* C40: every message published with routing key inventory.<agentId>, by the
\* inventory ticker or by the light refresh, has a body that is a JSON
\* envelope with agentId, ts and inventory, whatever the script wrote to
\* stdout, text that is not JSON included.
C40_InventoryBodies ==
    \A i \in DOMAIN tel.msgs :
        tel.msgs[i].key = "inventory." \o AgentID => IsEnvelope(tel.msgs[i].body)

====
